---- MODULE Spec2Model ----
(***************************************************************************)
(* Model of the Alexa capability layer of                                  *)
(* homeassistant/components/alexa/capabilities.py and of the InComfort     *)
(* water heater glue.  A capability wraps one entity (domain, state,       *)
(* attributes) and renders discovery documents and property reports.       *)
(*                                                                         *)
(* Python values are encoded as follows.                                   *)
(*   - the outcome of a call is Return(v), ReturnNone or Raise(exc);       *)
(*   - a string-or-None slot (state, instance, preset) holds a string, and *)
(*     None is the reserved string None;                                   *)
(*   - an attribute of mixed type (a temperature) holds PyNone, Num(n) or  *)
(*     Str(s); an attribute that is missing is not in the DOMAIN of the    *)
(*     attributes mapping;                                                 *)
(*   - dicts are functions over string keys, lists are sequences.          *)
(*                                                                         *)
(* Spec runs the operations of one capability one after the other.         *)
(* SpecConcurrent runs serialize_discovery in two threads on one           *)
(* capability, statement by statement, next to a consumer of               *)
(* serialize_properties; there the resource and semantics objects live in  *)
(* heap and self._resource, self._semantics hold references to them.       *)
(* SpecWaterHeater reads current_temperature of an InComfort water heater  *)
(* over every status of the boiler.                                        *)
(***************************************************************************)
EXTENDS Integers, Sequences, FiniteSets, TLC

VARIABLES cap, entity, hass, call, gen, discoveries, heap, threads, heater

vars == <<cap, entity, hass, call, gen, discoveries, heap, threads, heater>>

-----------------------------------------------------------------------------
(* Python values and call outcomes *)

None == "None"

PyNone == [t |-> "None"]

Num(n) == [t |-> "num", n |-> n]

Str(s) == [t |-> "str", s |-> s]

Return(v) == [k |-> "value", v |-> v]

ReturnNone == [k |-> "None"]

Raise(exc) == [k |-> "raise", exc |-> exc]

\* Python truthiness of a returned list or dict: None and empty are falsy.
Truthy(out) == out.k = "value" /\ DOMAIN out.v # {}

\* The literals of the model's string universe that Python's float() accepts
\* and the number each denotes; "1e1" is a float literal but no int literal.
FloatLiterals == ("21" :> 21) @@ ("0" :> 0) @@ ("2" :> 2) @@ ("1e1" :> 10)

\* The literals that Python's int() accepts.
IntLiterals == ("21" :> 21) @@ ("0" :> 0) @@ ("2" :> 2)

\* float(x): a number converts, a string converts when it is a float
\* literal, any other string raises ValueError.
float(x) ==
  IF x.t = "num" THEN Return(x.n)
  ELSE IF x.s \in DOMAIN FloatLiterals THEN Return(FloatLiterals[x.s])
  ELSE Raise("ValueError")

\* int(x) of a string: converts an integer literal, raises ValueError otherwise.
int(x) ==
  IF x.t = "num" THEN Return(x.n)
  ELSE IF x.s \in DOMAIN IntLiterals THEN Return(IntLiterals[x.s])
  ELSE Raise("ValueError")

\* a & b on naturals.
RECURSIVE BitAnd(_, _)
BitAnd(a, b) ==
  IF a = 0 \/ b = 0 THEN 0
  ELSE (a % 2) * (b % 2) + 2 * BitAnd(a \div 2, b \div 2)

\* entity.attributes.get(key, default)
attributes_get(e, key, default) ==
  IF key \in DOMAIN e.attributes THEN e.attributes[key] ELSE default

-----------------------------------------------------------------------------
(* Constants imported by capabilities.py *)

STATE_ON == "on"

STATE_OFF == "off"

STATE_LOCKED == "locked"

STATE_UNLOCKED == "unlocked"

STATE_PLAYING == "playing"

STATE_PAUSED == "paused"

STATE_UNAVAILABLE == "unavailable"

STATE_UNKNOWN == "unknown"

STATE_ALARM_ARMED_AWAY == "armed_away"

STATE_ALARM_ARMED_CUSTOM_BYPASS == "armed_custom_bypass"

STATE_ALARM_ARMED_HOME == "armed_home"

STATE_ALARM_ARMED_NIGHT == "armed_night"

ATTR_SUPPORTED_FEATURES == "supported_features"

ATTR_TEMPERATURE == "temperature"

ATTR_UNIT_OF_MEASUREMENT == "unit_of_measurement"

ATTR_CODE_FORMAT == "code_format"

FORMAT_NUMBER == "number"

TEMP_CELSIUS == "C"

TEMP_FAHRENHEIT == "F"

climate_DOMAIN == "climate"

climate_HVAC_MODE_OFF == "off"

climate_ATTR_PRESET_MODE == "preset_mode"

climate_ATTR_PRESET_MODES == "preset_modes"

climate_ATTR_HVAC_MODES == "hvac_modes"

climate_ATTR_CURRENT_TEMPERATURE == "current_temperature"

climate_ATTR_TARGET_TEMP_LOW == "target_temp_low"

climate_ATTR_TARGET_TEMP_HIGH == "target_temp_high"

climate_SUPPORT_TARGET_TEMPERATURE == 1

climate_SUPPORT_TARGET_TEMPERATURE_RANGE == 2

fan_DOMAIN == "fan"

fan_ATTR_SPEED == "speed"

fan_ATTR_DIRECTION == "direction"

fan_ATTR_OSCILLATING == "oscillating"

fan_DIRECTION_FORWARD == "forward"

fan_DIRECTION_REVERSE == "reverse"

cover_DOMAIN == "cover"

cover_ATTR_POSITION == "position"

cover_ATTR_TILT_POSITION == "tilt_position"

cover_ATTR_CURRENT_POSITION == "current_position"

cover_ATTR_CURRENT_TILT_POSITION == "current_tilt_position"

cover_STATE_OPEN == "open"

cover_STATE_OPENING == "opening"

cover_STATE_CLOSED == "closed"

cover_STATE_CLOSING == "closing"

light_DOMAIN == "light"

light_ATTR_HS_COLOR == "hs_color"

light_ATTR_BRIGHTNESS == "brightness"

input_number_DOMAIN == "input_number"

input_number_ATTR_VALUE == "value"

input_number_ATTR_MIN == "min"

input_number_ATTR_MAX == "max"

input_number_ATTR_STEP == "step"

image_processing_DOMAIN == "image_processing"

media_player_ATTR_INPUT_SOURCE_LIST == "source_list"

media_player_SUPPORT_PAUSE == 1

media_player_SUPPORT_PREVIOUS_TRACK == 16

media_player_SUPPORT_NEXT_TRACK == 32

media_player_SUPPORT_STOP == 4096

media_player_SUPPORT_PLAY == 16384

\* The fixed lookup tables of alexa/const.py.
API_TEMP_UNITS == (TEMP_FAHRENHEIT :> "FAHRENHEIT") @@ (TEMP_CELSIUS :> "CELSIUS")

API_THERMOSTAT_MODES ==
  ("heat" :> "HEAT") @@ ("cool" :> "COOL") @@ ("heat_cool" :> "AUTO")
  @@ ("auto" :> "AUTO") @@ ("off" :> "OFF") @@ ("fan_only" :> "OFF")
  @@ ("dry" :> "CUSTOM")

API_THERMOSTAT_PRESETS == ("eco" :> "ECO")

PERCENTAGE_FAN_MAP ==
  ("off" :> 0) @@ ("low" :> 33) @@ ("medium" :> 66) @@ ("high" :> 100)

RANGE_FAN_MAP == ("off" :> 0) @@ ("low" :> 1) @@ ("medium" :> 2) @@ ("high" :> 3)

\* Inputs.VALID_SOURCE_NAME_MAP, restricted to the sources of the model.
VALID_SOURCE_NAME_MAP == ("hdmi1" :> "HDMI 1") @@ ("tv" :> "TV") @@ ("aux1" :> "AUX 1")

\* dict.get(key): the table entry, or None.
table_get(table, key) == IF key \in DOMAIN table THEN table[key] ELSE None

-----------------------------------------------------------------------------
(* get_property of each capability variant *)

\* AlexaCapability.get_property: the base class supports no property.
AlexaCapability_get_property(name) == Raise("UnsupportedProperty")

AlexaEndpointHealth_get_property(e, name) ==
  IF name # "connectivity" THEN Raise("UnsupportedProperty")
  ELSE IF e.state = STATE_UNAVAILABLE THEN Return([value |-> "UNREACHABLE"])
  ELSE Return([value |-> "OK"])

\* Variant: on only in the generic on state.
AlexaPowerController_get_property_on_state_only(e, name) ==
  IF name # "powerState" THEN Raise("UnsupportedProperty")
  ELSE Return(IF e.state = STATE_ON THEN "ON" ELSE "OFF")

AlexaPowerController_get_property(e, name) ==
  IF name # "powerState" THEN Raise("UnsupportedProperty")
  ELSE LET is_on == IF e.domain = climate_DOMAIN
                    THEN e.state # climate_HVAC_MODE_OFF
                    ELSE e.state # STATE_OFF
       IN Return(IF is_on THEN "ON" ELSE "OFF")

\* Variant: without the branch for the unlocked state.
AlexaLockController_get_property_without_unlocked(e, name) ==
  IF name # "lockState" THEN Raise("UnsupportedProperty")
  ELSE IF e.state = STATE_LOCKED THEN Return("LOCKED")
  ELSE Return("JAMMED")

AlexaLockController_get_property(e, name) ==
  IF name # "lockState" THEN Raise("UnsupportedProperty")
  ELSE IF e.state = STATE_LOCKED THEN Return("LOCKED")
  ELSE IF e.state = STATE_UNLOCKED THEN Return("UNLOCKED")
  ELSE Return("JAMMED")

\* Variant: int(b / 255.0 * 100), which drops the fraction.
round_brightness_truncating(b) == (100 * b) \div 255

\* round(b / 255.0 * 100): b * 100 / 255 is never halfway between two
\* integers for an integer b, so rounding is floor(x + 1/2).
round_brightness(b) == (200 * b + 255) \div 510

AlexaBrightnessController_get_property(e, name) ==
  IF name # "brightness" THEN Raise("UnsupportedProperty")
  ELSE IF "brightness" \in DOMAIN e.attributes
       THEN Return(round_brightness(e.attributes["brightness"]))
  ELSE Return(0)

\* A float quotient num / den is kept as the pair of its operands.
AlexaColorController_get_property(e, name) ==
  IF name # "color" THEN Raise("UnsupportedProperty")
  ELSE LET hs == attributes_get(e, light_ATTR_HS_COLOR, <<0, 0>>)
       IN Return([hue |-> hs[1],
                  saturation |-> [num |-> hs[2], den |-> 100],
                  brightness |-> [num |-> attributes_get(e, light_ATTR_BRIGHTNESS, 0),
                                  den |-> 255]])

\* color_util.color_temperature_mired_to_kelvin: kelvin = 1_000_000 / mired,
\* the quotient kept as the pair of its operands.
color_temperature_mired_to_kelvin(mired) == [num |-> 1000000, den |-> mired]

\* Variant: a missing color_temp attribute gives 0, as a missing brightness.
AlexaColorTemperatureController_get_property_defaulting(e, name) ==
  IF name # "colorTemperatureInKelvin" THEN Raise("UnsupportedProperty")
  ELSE IF "color_temp" \in DOMAIN e.attributes
       THEN Return(color_temperature_mired_to_kelvin(e.attributes["color_temp"]))
  ELSE Return(0)

AlexaColorTemperatureController_get_property(e, name) ==
  IF name # "colorTemperatureInKelvin" THEN Raise("UnsupportedProperty")
  ELSE IF "color_temp" \in DOMAIN e.attributes
       THEN Return(color_temperature_mired_to_kelvin(e.attributes["color_temp"]))
  ELSE ReturnNone

AlexaPercentageController_get_property(e, name) ==
  IF name # "percentage" THEN Raise("UnsupportedProperty")
  ELSE IF e.domain = fan_DOMAIN
       THEN LET speed == attributes_get(e, fan_ATTR_SPEED, None)
            IN Return(IF speed \in DOMAIN PERCENTAGE_FAN_MAP
                      THEN PERCENTAGE_FAN_MAP[speed] ELSE 0)
  ELSE IF e.domain = cover_DOMAIN
       THEN Return(attributes_get(e, cover_ATTR_CURRENT_POSITION, 0))
  ELSE Return(0)

\* Variant: a climate entity is read like a sensor, from its state and its
\* unit_of_measurement attribute.
AlexaTemperatureSensor_get_property_from_state(e, h, name) ==
  IF name # "temperature" THEN Raise("UnsupportedProperty")
  ELSE LET unit == attributes_get(e, ATTR_UNIT_OF_MEASUREMENT, None)
           temp == IF e.state = None THEN PyNone ELSE Str(e.state)
       IN IF \/ temp.t = "None"
             \/ (temp.t = "str" /\ temp.s \in {STATE_UNAVAILABLE, STATE_UNKNOWN})
          THEN ReturnNone
          ELSE IF float(temp).k = "raise" THEN ReturnNone
          ELSE IF unit \notin DOMAIN API_TEMP_UNITS THEN Raise("KeyError")
          ELSE Return([value |-> float(temp).v, scale |-> API_TEMP_UNITS[unit]])

AlexaTemperatureSensor_get_property(e, h, name) ==
  IF name # "temperature" THEN Raise("UnsupportedProperty")
  ELSE LET unit == IF e.domain = climate_DOMAIN
                   THEN h.temperature_unit
                   ELSE attributes_get(e, ATTR_UNIT_OF_MEASUREMENT, None)
           temp == IF e.domain = climate_DOMAIN
                   THEN attributes_get(e, climate_ATTR_CURRENT_TEMPERATURE, PyNone)
                   ELSE IF e.state = None THEN PyNone ELSE Str(e.state)
       IN IF \/ temp.t = "None"
             \/ (temp.t = "str" /\ temp.s \in {STATE_UNAVAILABLE, STATE_UNKNOWN})
          THEN ReturnNone
          ELSE IF float(temp).k = "raise" THEN ReturnNone
          ELSE IF unit \notin DOMAIN API_TEMP_UNITS THEN Raise("KeyError")
          ELSE Return([value |-> float(temp).v, scale |-> API_TEMP_UNITS[unit]])

AlexaContactSensor_get_property(e, name) ==
  IF name # "detectionState" THEN Raise("UnsupportedProperty")
  ELSE IF e.state = STATE_ON THEN Return("DETECTED")
  ELSE Return("NOT_DETECTED")

AlexaMotionSensor_get_property(e, name) ==
  IF name # "detectionState" THEN Raise("UnsupportedProperty")
  ELSE IF e.state = STATE_ON THEN Return("DETECTED")
  ELSE Return("NOT_DETECTED")

\* Variant: the preset is ignored, the mode always comes from the state.
AlexaThermostatController_get_property_ignoring_preset(e, h, name) ==
  IF e.state = STATE_UNAVAILABLE THEN ReturnNone
  ELSE IF name = "thermostatMode"
  THEN LET mode == table_get(API_THERMOSTAT_MODES, e.state)
       IN IF mode = None THEN Raise("UnsupportedProperty") ELSE Return(mode)
  ELSE IF name \notin {"targetSetpoint", "lowerSetpoint", "upperSetpoint"}
  THEN Raise("UnsupportedProperty")
  ELSE LET key == IF name = "targetSetpoint" THEN ATTR_TEMPERATURE
                  ELSE IF name = "lowerSetpoint" THEN climate_ATTR_TARGET_TEMP_LOW
                  ELSE climate_ATTR_TARGET_TEMP_HIGH
           temp == attributes_get(e, key, PyNone)
       IN IF temp.t = "None" THEN ReturnNone
          ELSE IF float(temp).k = "raise" THEN ReturnNone
          ELSE Return([value |-> float(temp).v,
                       scale |-> API_TEMP_UNITS[h.temperature_unit]])

\* Variant: no early return for an unavailable entity.
AlexaThermostatController_get_property_without_unavailable(e, h, name) ==
  IF name = "thermostatMode"
  THEN LET preset == attributes_get(e, climate_ATTR_PRESET_MODE, None)
       IN IF preset \in DOMAIN API_THERMOSTAT_PRESETS
          THEN Return(API_THERMOSTAT_PRESETS[preset])
          ELSE LET mode == table_get(API_THERMOSTAT_MODES, e.state)
               IN IF mode = None THEN Raise("UnsupportedProperty")
                  ELSE Return(mode)
  ELSE IF name \notin {"targetSetpoint", "lowerSetpoint", "upperSetpoint"}
  THEN Raise("UnsupportedProperty")
  ELSE LET key == IF name = "targetSetpoint" THEN ATTR_TEMPERATURE
                  ELSE IF name = "lowerSetpoint" THEN climate_ATTR_TARGET_TEMP_LOW
                  ELSE climate_ATTR_TARGET_TEMP_HIGH
           temp == attributes_get(e, key, PyNone)
       IN IF temp.t = "None" THEN ReturnNone
          ELSE IF float(temp).k = "raise" THEN ReturnNone
          ELSE Return([value |-> float(temp).v,
                       scale |-> API_TEMP_UNITS[h.temperature_unit]])

\* Variant: lowerSetpoint and upperSetpoint read each other's attribute.
AlexaThermostatController_get_property_swapped_setpoints(e, h, name) ==
  IF e.state = STATE_UNAVAILABLE THEN ReturnNone
  ELSE IF name = "thermostatMode"
  THEN LET preset == attributes_get(e, climate_ATTR_PRESET_MODE, None)
       IN IF preset \in DOMAIN API_THERMOSTAT_PRESETS
          THEN Return(API_THERMOSTAT_PRESETS[preset])
          ELSE LET mode == table_get(API_THERMOSTAT_MODES, e.state)
               IN IF mode = None THEN Raise("UnsupportedProperty")
                  ELSE Return(mode)
  ELSE IF name \notin {"targetSetpoint", "lowerSetpoint", "upperSetpoint"}
  THEN Raise("UnsupportedProperty")
  ELSE LET key == IF name = "targetSetpoint" THEN ATTR_TEMPERATURE
                  ELSE IF name = "lowerSetpoint" THEN climate_ATTR_TARGET_TEMP_HIGH
                  ELSE climate_ATTR_TARGET_TEMP_LOW
           temp == attributes_get(e, key, PyNone)
       IN IF temp.t = "None" THEN ReturnNone
          ELSE IF float(temp).k = "raise" THEN ReturnNone
          ELSE Return([value |-> float(temp).v,
                       scale |-> API_TEMP_UNITS[h.temperature_unit]])

AlexaThermostatController_get_property(e, h, name) ==
  IF e.state = STATE_UNAVAILABLE THEN ReturnNone
  ELSE IF name = "thermostatMode"
  THEN LET preset == attributes_get(e, climate_ATTR_PRESET_MODE, None)
       IN IF preset \in DOMAIN API_THERMOSTAT_PRESETS
          THEN Return(API_THERMOSTAT_PRESETS[preset])
          ELSE LET mode == table_get(API_THERMOSTAT_MODES, e.state)
               IN IF mode = None THEN Raise("UnsupportedProperty")
                  ELSE Return(mode)
  ELSE IF name \notin {"targetSetpoint", "lowerSetpoint", "upperSetpoint"}
  THEN Raise("UnsupportedProperty")
  ELSE LET unit == h.temperature_unit
           key == IF name = "targetSetpoint" THEN ATTR_TEMPERATURE
                  ELSE IF name = "lowerSetpoint" THEN climate_ATTR_TARGET_TEMP_LOW
                  ELSE climate_ATTR_TARGET_TEMP_HIGH
           temp == attributes_get(e, key, PyNone)
       IN IF temp.t = "None" THEN ReturnNone
          ELSE IF float(temp).k = "raise" THEN ReturnNone
          ELSE Return([value |-> float(temp).v, scale |-> API_TEMP_UNITS[unit]])

AlexaPowerLevelController_get_property(e, name) ==
  IF name # "powerLevel" THEN Raise("UnsupportedProperty")
  ELSE IF e.domain = fan_DOMAIN
       THEN LET speed == attributes_get(e, fan_ATTR_SPEED, None)
            IN IF speed \in DOMAIN PERCENTAGE_FAN_MAP
               THEN Return(PERCENTAGE_FAN_MAP[speed]) ELSE ReturnNone
  ELSE ReturnNone

\* Variant: without the branch for armed_custom_bypass.
AlexaSecurityPanelController_get_property_without_custom_bypass(e, name) ==
  IF name # "armState" THEN Raise("UnsupportedProperty")
  ELSE LET arm_state == e.state
       IN IF arm_state = STATE_ALARM_ARMED_HOME THEN Return("ARMED_STAY")
          ELSE IF arm_state = STATE_ALARM_ARMED_AWAY THEN Return("ARMED_AWAY")
          ELSE IF arm_state = STATE_ALARM_ARMED_NIGHT THEN Return("ARMED_NIGHT")
          ELSE Return("DISARMED")

AlexaSecurityPanelController_get_property(e, name) ==
  IF name # "armState" THEN Raise("UnsupportedProperty")
  ELSE LET arm_state == e.state
       IN IF arm_state = STATE_ALARM_ARMED_HOME THEN Return("ARMED_STAY")
          ELSE IF arm_state = STATE_ALARM_ARMED_AWAY THEN Return("ARMED_AWAY")
          ELSE IF arm_state = STATE_ALARM_ARMED_NIGHT THEN Return("ARMED_NIGHT")
          ELSE IF arm_state = STATE_ALARM_ARMED_CUSTOM_BYPASS THEN Return("ARMED_STAY")
          ELSE Return("DISARMED")

\* f"{a}.{b}"
dotted(a, b) == a \o "." \o b

AlexaModeController_get_property(c, e, name) ==
  IF name # "mode" THEN Raise("UnsupportedProperty")
  ELSE LET direction == attributes_get(e, fan_ATTR_DIRECTION, None)
       IN IF /\ c.instance = dotted(fan_DOMAIN, fan_ATTR_DIRECTION)
             /\ direction \in {fan_DIRECTION_FORWARD, fan_DIRECTION_REVERSE, STATE_UNKNOWN}
          THEN Return(dotted(fan_ATTR_DIRECTION, direction))
          ELSE IF /\ c.instance = dotted(cover_DOMAIN, cover_ATTR_POSITION)
                  /\ e.state \in {cover_STATE_OPEN, cover_STATE_OPENING,
                                  cover_STATE_CLOSED, cover_STATE_CLOSING, STATE_UNKNOWN}
          THEN Return(dotted(cover_ATTR_POSITION, e.state))
          ELSE ReturnNone

\* dict.get(key) of an attribute holding a number: the number or None.
attribute_or_none(e, key) ==
  IF key \in DOMAIN e.attributes THEN Return(e.attributes[key]) ELSE ReturnNone

AlexaRangeController_get_property(c, e, name) ==
  IF name # "rangeValue" THEN Raise("UnsupportedProperty")
  ELSE IF c.instance = dotted(fan_DOMAIN, fan_ATTR_SPEED)
  THEN LET speed == attributes_get(e, fan_ATTR_SPEED, None)
       IN Return(IF speed \in DOMAIN RANGE_FAN_MAP THEN RANGE_FAN_MAP[speed] ELSE 0)
  ELSE IF c.instance = dotted(cover_DOMAIN, cover_ATTR_POSITION)
  THEN attribute_or_none(e, cover_ATTR_CURRENT_POSITION)
  ELSE IF c.instance = dotted(cover_DOMAIN, cover_ATTR_TILT_POSITION)
  THEN attribute_or_none(e, cover_ATTR_CURRENT_TILT_POSITION)
  ELSE IF c.instance = dotted(input_number_DOMAIN, input_number_ATTR_VALUE)
  THEN float(Str(e.state))
  ELSE ReturnNone

\* Variant: the oscillating attribute is read whatever the instance is.
AlexaToggleController_get_property_ignoring_instance(c, e, name) ==
  IF name # "toggleState" THEN Raise("UnsupportedProperty")
  ELSE LET is_on == attributes_get(e, fan_ATTR_OSCILLATING, FALSE)
       IN Return(IF is_on THEN "ON" ELSE "OFF")

AlexaToggleController_get_property(c, e, name) ==
  IF name # "toggleState" THEN Raise("UnsupportedProperty")
  ELSE IF c.instance = dotted(fan_DOMAIN, fan_ATTR_OSCILLATING)
  THEN LET is_on == attributes_get(e, fan_ATTR_OSCILLATING, FALSE)
       IN Return(IF is_on THEN "ON" ELSE "OFF")
  ELSE ReturnNone

AlexaPlaybackStateReporter_get_property(e, name) ==
  IF name # "playbackState" THEN Raise("UnsupportedProperty")
  ELSE LET playback_state == e.state
       IN IF playback_state = STATE_PLAYING THEN Return([state |-> "PLAYING"])
          ELSE IF playback_state = STATE_PAUSED THEN Return([state |-> "PAUSED"])
          ELSE Return([state |-> "STOPPED"])

AlexaEventDetectionSensor_get_property(e, name) ==
  IF name # "humanPresenceDetectionState" THEN Raise("UnsupportedProperty")
  ELSE LET state == e.state
       IN IF state \in {STATE_UNAVAILABLE, STATE_UNKNOWN, None} THEN ReturnNone
          ELSE IF e.domain = image_processing_DOMAIN
          THEN IF int(Str(state)).k = "raise" THEN int(Str(state))
               ELSE Return([value |-> IF int(Str(state)).v # 0
                                      THEN "DETECTED" ELSE "NOT_DETECTED"])
          ELSE Return([value |-> IF state = STATE_ON
                                 THEN "DETECTED" ELSE "NOT_DETECTED"])

\* self.get_property(name), dispatched on the class of the capability.
get_property(c, e, h, name) ==
  CASE c.cls = "AlexaEndpointHealth" -> AlexaEndpointHealth_get_property(e, name)
    [] c.cls = "AlexaPowerController" -> AlexaPowerController_get_property(e, name)
    [] c.cls = "AlexaLockController" -> AlexaLockController_get_property(e, name)
    [] c.cls = "AlexaBrightnessController" -> AlexaBrightnessController_get_property(e, name)
    [] c.cls = "AlexaColorController" -> AlexaColorController_get_property(e, name)
    [] c.cls = "AlexaColorTemperatureController" ->
         AlexaColorTemperatureController_get_property(e, name)
    [] c.cls = "AlexaPercentageController" -> AlexaPercentageController_get_property(e, name)
    [] c.cls = "AlexaTemperatureSensor" -> AlexaTemperatureSensor_get_property(e, h, name)
    [] c.cls = "AlexaContactSensor" -> AlexaContactSensor_get_property(e, name)
    [] c.cls = "AlexaMotionSensor" -> AlexaMotionSensor_get_property(e, name)
    [] c.cls = "AlexaThermostatController" ->
         AlexaThermostatController_get_property(e, h, name)
    [] c.cls = "AlexaPowerLevelController" -> AlexaPowerLevelController_get_property(e, name)
    [] c.cls = "AlexaSecurityPanelController" ->
         AlexaSecurityPanelController_get_property(e, name)
    [] c.cls = "AlexaModeController" -> AlexaModeController_get_property(c, e, name)
    [] c.cls = "AlexaRangeController" -> AlexaRangeController_get_property(c, e, name)
    [] c.cls = "AlexaToggleController" -> AlexaToggleController_get_property(c, e, name)
    [] c.cls = "AlexaPlaybackStateReporter" ->
         AlexaPlaybackStateReporter_get_property(e, name)
    [] c.cls = "AlexaEventDetectionSensor" ->
         AlexaEventDetectionSensor_get_property(e, name)
    [] OTHER -> AlexaCapability_get_property(name)

-----------------------------------------------------------------------------
(* Descriptive hooks *)

\* Variant: the identifier is taken from the instance, not from the class.
name_with_instance(c) ==
  IF c.instance = None THEN "Alexa" ELSE c.instance

\* name() of each concrete class.
name(c) ==
  CASE c.cls = "Alexa" -> "Alexa"
    [] c.cls = "AlexaEndpointHealth" -> "Alexa.EndpointHealth"
    [] c.cls = "AlexaPowerController" -> "Alexa.PowerController"
    [] c.cls = "AlexaLockController" -> "Alexa.LockController"
    [] c.cls = "AlexaSceneController" -> "Alexa.SceneController"
    [] c.cls = "AlexaBrightnessController" -> "Alexa.BrightnessController"
    [] c.cls = "AlexaColorController" -> "Alexa.ColorController"
    [] c.cls = "AlexaColorTemperatureController" -> "Alexa.ColorTemperatureController"
    [] c.cls = "AlexaPercentageController" -> "Alexa.PercentageController"
    [] c.cls = "AlexaSpeaker" -> "Alexa.Speaker"
    [] c.cls = "AlexaStepSpeaker" -> "Alexa.StepSpeaker"
    [] c.cls = "AlexaPlaybackController" -> "Alexa.PlaybackController"
    [] c.cls = "AlexaInputController" -> "Alexa.InputController"
    [] c.cls = "AlexaTemperatureSensor" -> "Alexa.TemperatureSensor"
    [] c.cls = "AlexaContactSensor" -> "Alexa.ContactSensor"
    [] c.cls = "AlexaMotionSensor" -> "Alexa.MotionSensor"
    [] c.cls = "AlexaThermostatController" -> "Alexa.ThermostatController"
    [] c.cls = "AlexaPowerLevelController" -> "Alexa.PowerLevelController"
    [] c.cls = "AlexaSecurityPanelController" -> "Alexa.SecurityPanelController"
    [] c.cls = "AlexaModeController" -> "Alexa.ModeController"
    [] c.cls = "AlexaRangeController" -> "Alexa.RangeController"
    [] c.cls = "AlexaToggleController" -> "Alexa.ToggleController"
    [] c.cls = "AlexaChannelController" -> "Alexa.ChannelController"
    [] c.cls = "AlexaDoorbellEventSource" -> "Alexa.DoorbellEventSource"
    [] c.cls = "AlexaPlaybackStateReporter" -> "Alexa.PlaybackStateReporter"
    [] c.cls = "AlexaSeekController" -> "Alexa.SeekController"
    [] c.cls = "AlexaEventDetectionSensor" -> "Alexa.EventDetectionSensor"

AlexaThermostatController_properties_supported(e) ==
  LET supported == attributes_get(e, ATTR_SUPPORTED_FEATURES, 0)
  IN <<[name |-> "thermostatMode"]>>
     \o (IF BitAnd(supported, climate_SUPPORT_TARGET_TEMPERATURE) # 0
         THEN <<[name |-> "targetSetpoint"]>> ELSE <<>>)
     \o (IF BitAnd(supported, climate_SUPPORT_TARGET_TEMPERATURE_RANGE) # 0
         THEN <<[name |-> "lowerSetpoint"], [name |-> "upperSetpoint"]>> ELSE <<>>)

\* properties_supported(): the base class declares none.
properties_supported(c, e) ==
  CASE c.cls = "AlexaEndpointHealth" -> <<[name |-> "connectivity"]>>
    [] c.cls = "AlexaPowerController" -> <<[name |-> "powerState"]>>
    [] c.cls = "AlexaLockController" -> <<[name |-> "lockState"]>>
    [] c.cls = "AlexaBrightnessController" -> <<[name |-> "brightness"]>>
    [] c.cls = "AlexaColorController" -> <<[name |-> "color"]>>
    [] c.cls = "AlexaColorTemperatureController" -> <<[name |-> "colorTemperatureInKelvin"]>>
    [] c.cls = "AlexaPercentageController" -> <<[name |-> "percentage"]>>
    [] c.cls = "AlexaTemperatureSensor" -> <<[name |-> "temperature"]>>
    [] c.cls = "AlexaContactSensor" -> <<[name |-> "detectionState"]>>
    [] c.cls = "AlexaMotionSensor" -> <<[name |-> "detectionState"]>>
    [] c.cls = "AlexaThermostatController" -> AlexaThermostatController_properties_supported(e)
    [] c.cls = "AlexaPowerLevelController" -> <<[name |-> "powerLevel"]>>
    [] c.cls = "AlexaSecurityPanelController" -> <<[name |-> "armState"]>>
    [] c.cls = "AlexaModeController" -> <<[name |-> "mode"]>>
    [] c.cls = "AlexaRangeController" -> <<[name |-> "rangeValue"]>>
    [] c.cls = "AlexaToggleController" -> <<[name |-> "toggleState"]>>
    [] c.cls = "AlexaPlaybackStateReporter" -> <<[name |-> "playbackState"]>>
    [] c.cls = "AlexaEventDetectionSensor" -> <<[name |-> "humanPresenceDetectionState"]>>
    [] OTHER -> <<>>

\* properties_proactively_reported(): False unless overridden.
properties_proactively_reported(c) ==
  c.cls \in {"AlexaEndpointHealth", "AlexaPowerController", "AlexaLockController",
             "AlexaBrightnessController", "AlexaTemperatureSensor",
             "AlexaContactSensor", "AlexaMotionSensor", "AlexaThermostatController",
             "AlexaPowerLevelController", "AlexaSecurityPanelController",
             "AlexaModeController", "AlexaRangeController", "AlexaToggleController",
             "AlexaPlaybackStateReporter", "AlexaEventDetectionSensor"}

\* properties_retrievable(): False unless overridden.
properties_retrievable(c) ==
  c.cls \in {"AlexaEndpointHealth", "AlexaPowerController", "AlexaLockController",
             "AlexaBrightnessController", "AlexaColorController",
             "AlexaColorTemperatureController", "AlexaPercentageController",
             "AlexaTemperatureSensor", "AlexaContactSensor", "AlexaMotionSensor",
             "AlexaThermostatController", "AlexaPowerLevelController",
             "AlexaSecurityPanelController", "AlexaModeController",
             "AlexaRangeController", "AlexaToggleController",
             "AlexaPlaybackStateReporter"}

\* Variant: the base class returns False where the code returns None.
properties_non_controllable_never_none(c) == Return(c.arg)

\* properties_non_controllable(): None, or the constructor argument of the
\* Mode, Range and Toggle controllers.
properties_non_controllable(c) ==
  IF c.cls \in {"AlexaModeController", "AlexaRangeController", "AlexaToggleController"}
  THEN Return(c.arg) ELSE ReturnNone

\* supports_deactivation(): None, or the constructor argument of the scene
\* controller.
supports_deactivation(c) ==
  IF c.cls = "AlexaSceneController" THEN Return(c.arg) ELSE ReturnNone

\* capability_proactively_reported(): None, True for the doorbell.
capability_proactively_reported(c) ==
  IF c.cls = "AlexaDoorbellEventSource" THEN Return(TRUE) ELSE ReturnNone

\* The for loop of supported_operations over the operations dict.
AlexaPlaybackController_supported_operations(e) ==
  LET supported_features == attributes_get(e, ATTR_SUPPORTED_FEATURES, 0)
      op(bit, label) == IF BitAnd(bit, supported_features) # 0 THEN <<label>> ELSE <<>>
  IN op(media_player_SUPPORT_NEXT_TRACK, "Next")
     \o op(media_player_SUPPORT_PAUSE, "Pause")
     \o op(media_player_SUPPORT_PLAY, "Play")
     \o op(media_player_SUPPORT_PREVIOUS_TRACK, "Previous")
     \o op(media_player_SUPPORT_STOP, "Stop")

supported_operations(c, e) ==
  IF c.cls = "AlexaPlaybackController"
  THEN AlexaPlaybackController_supported_operations(e) ELSE <<>>

\* source.lower().replace("-", "").replace("_", "").replace(" ", "") on the
\* source names of the model.
formatted_source(source) ==
  CASE source = "HDMI 1" -> "hdmi1"
    [] source = "hdmi_1" -> "hdmi1"
    [] source = "TV" -> "tv"
    [] source = "Net-Flix" -> "netflix"
    [] OTHER -> source

RECURSIVE AlexaInputController_input_list(_)
AlexaInputController_input_list(source_list) ==
  IF source_list = <<>> THEN <<>>
  ELSE LET fs == formatted_source(Head(source_list))
       IN (IF fs \in DOMAIN VALID_SOURCE_NAME_MAP
           THEN <<[name |-> VALID_SOURCE_NAME_MAP[fs]]>> ELSE <<>>)
          \o AlexaInputController_input_list(Tail(source_list))

inputs(c, e) ==
  IF c.cls = "AlexaInputController"
  THEN AlexaInputController_input_list(
         attributes_get(e, media_player_ATTR_INPUT_SOURCE_LIST, <<>>))
  ELSE <<>>

\* Variant: a mode without a table entry is advertised as CUSTOM.
RECURSIVE append_mapped_defaulting(_, _)
append_mapped_defaulting(modes, table) ==
  IF modes = <<>> THEN <<>>
  ELSE <<IF Head(modes) \in DOMAIN table THEN table[Head(modes)] ELSE "CUSTOM">>
       \o append_mapped_defaulting(Tail(modes), table)

\* The loop "for mode in modes: m = table.get(mode); if m: append(m)".
RECURSIVE append_mapped(_, _)
append_mapped(modes, table) ==
  IF modes = <<>> THEN <<>>
  ELSE LET thermostat_mode == table_get(table, Head(modes))
       IN (IF thermostat_mode # None /\ thermostat_mode # ""
           THEN <<thermostat_mode>> ELSE <<>>)
          \o append_mapped(Tail(modes), table)

\* Iterating the missing hvac_modes attribute (None) raises TypeError.
AlexaThermostatController_configuration(e) ==
  IF climate_ATTR_HVAC_MODES \notin DOMAIN e.attributes THEN Raise("TypeError")
  ELSE LET hvac_modes == e.attributes[climate_ATTR_HVAC_MODES]
           preset_modes == attributes_get(e, climate_ATTR_PRESET_MODES, <<>>)
           supported_modes == append_mapped(hvac_modes, API_THERMOSTAT_MODES)
                              \o (IF preset_modes # <<>>
                                  THEN append_mapped(preset_modes, API_THERMOSTAT_PRESETS)
                                  ELSE <<>>)
       IN IF supported_modes # <<>>
          THEN Return([supportsScheduling |-> FALSE, supportedModes |-> supported_modes])
          ELSE Return([supportsScheduling |-> FALSE])

AlexaSecurityPanelController_configuration(e) ==
  IF attributes_get(e, ATTR_CODE_FORMAT, None) = FORMAT_NUMBER
  THEN Return([supportedAuthorizationTypes |-> <<[type |-> "FOUR_DIGIT_PIN"]>>])
  ELSE ReturnNone

AlexaEventDetectionSensor_configuration ==
  Return([detectionMethods |-> <<"AUDIO", "VIDEO">>,
          detectionModes |-> [humanPresence |->
             [featureAvailability |-> "ENABLED", supportsNotDetected |-> TRUE]]])

-----------------------------------------------------------------------------
(* Resource and semantics builders of alexa/resources.py *)

NoResource == [cls |-> "None"]

AlexaCapabilityResource(labels) == [cls |-> "AlexaCapabilityResource", labels |-> labels]

AlexaModeResource(labels, ordered) ==
  [cls |-> "AlexaModeResource", labels |-> labels, ordered |-> ordered, modes |-> <<>>]

add_mode(r, value, labels) ==
  [r EXCEPT !.modes = Append(@, [value |-> value, labels |-> labels])]

AlexaPresetResource(labels, min_value, max_value, precision, unit) ==
  [cls |-> "AlexaPresetResource", labels |-> labels, min_value |-> min_value,
   max_value |-> max_value, precision |-> precision, unit |-> unit, presets |-> <<>>]

add_preset(r, value, labels) ==
  [r EXCEPT !.presets = Append(@, [value |-> value, labels |-> labels])]

serialize_labels(labels) == [friendlyNames |-> labels]

serialize_capability_resources(r) == serialize_labels(r.labels)

\* isinstance(r, AlexaCapabilityResource)
is_capability_resource(r) ==
  r.cls \in {"AlexaCapabilityResource", "AlexaModeResource", "AlexaPresetResource"}

serialize_configuration(r) ==
  CASE r.cls = "AlexaModeResource" ->
         Return([ordered |-> r.ordered,
                 supportedModes |->
                   [i \in DOMAIN r.modes |->
                      [value |-> r.modes[i].value,
                       modeResources |-> serialize_labels(r.modes[i].labels)]]])
    [] r.cls = "AlexaPresetResource" ->
         Return(("supportedRange" :> [minimumValue |-> r.min_value,
                                      maximumValue |-> r.max_value,
                                      precision |-> r.precision])
                @@ (IF r.unit # None THEN "unitOfMeasure" :> r.unit ELSE <<>>)
                @@ (IF r.presets # <<>>
                    THEN "presets" :>
                           [i \in DOMAIN r.presets |->
                              [rangeValue |-> r.presets[i].value,
                               presetResources |-> serialize_labels(r.presets[i].labels)]]
                    ELSE <<>>))
    [] OTHER -> Return(<<>>)

NoSemantics == [cls |-> "None"]

AlexaSemantics ==
  [cls |-> "AlexaSemantics", action_mappings |-> <<>>, state_mappings |-> <<>>]

add_action_to_directive(sem, actions, directive, payload) ==
  [sem EXCEPT !.action_mappings =
     Append(@, [actions |-> actions, directive |-> [name |-> directive,
                                                    payload |-> payload]])]

add_states_to_value(sem, states, value) ==
  [sem EXCEPT !.state_mappings =
     Append(@, [type |-> "StatesToValue", states |-> states, value |-> value])]

add_states_to_range(sem, states, min_value, max_value) ==
  [sem EXCEPT !.state_mappings =
     Append(@, [type |-> "StatesToRange", states |-> states,
                range |-> [minimumValue |-> min_value, maximumValue |-> max_value]])]

serialize_semantics(sem) ==
  (IF sem.action_mappings # <<>> THEN "actionMappings" :> sem.action_mappings ELSE <<>>)
  @@ (IF sem.state_mappings # <<>> THEN "stateMappings" :> sem.state_mappings ELSE <<>>)

-----------------------------------------------------------------------------
(* Hooks of the Mode, Range and Toggle controllers.  A hook that stores what *)
(* it builds on the capability returns the capability after the call in cap  *)
(* and the outcome of the call in out.                                       *)

\* A hook call that leaves the capability as it is.
Pure(c, out) == [cap |-> c, out |-> out]

\* self._resource = r; return r.serialize_capability_resources()
StoreResource(c, r) ==
  [cap |-> [c EXCEPT !._resource = r], out |-> Return(serialize_capability_resources(r))]

\* Variant: the mappings are added to the semantics object already stored.
StoreSemantics_accumulating(c, sem) ==
  LET kept == IF c._semantics = NoSemantics THEN AlexaSemantics ELSE c._semantics
      merged == [sem EXCEPT !.action_mappings = kept.action_mappings \o @,
                            !.state_mappings = kept.state_mappings \o @]
  IN [cap |-> [c EXCEPT !._semantics = merged], out |-> Return(serialize_semantics(merged))]

\* self._semantics = sem; return sem.serialize_semantics()
StoreSemantics(c, sem) ==
  [cap |-> [c EXCEPT !._semantics = sem], out |-> Return(serialize_semantics(sem))]

AlexaModeController_capability_resources(c) ==
  IF c.instance = dotted(fan_DOMAIN, fan_ATTR_DIRECTION)
  THEN StoreResource(c,
         add_mode(
           add_mode(AlexaModeResource(<<"Alexa.Setting.Direction">>, FALSE),
                    dotted(fan_ATTR_DIRECTION, fan_DIRECTION_FORWARD),
                    <<fan_DIRECTION_FORWARD>>),
           dotted(fan_ATTR_DIRECTION, fan_DIRECTION_REVERSE), <<fan_DIRECTION_REVERSE>>))
  ELSE IF c.instance = dotted(cover_DOMAIN, cover_ATTR_POSITION)
  THEN StoreResource(c,
         add_mode(
           add_mode(
             add_mode(AlexaModeResource(<<"Position", "Alexa.Setting.Opening">>, FALSE),
                      dotted(cover_ATTR_POSITION, cover_STATE_OPEN), <<"Alexa.Value.Open">>),
             dotted(cover_ATTR_POSITION, cover_STATE_CLOSED), <<"Alexa.Value.Close">>),
           dotted(cover_ATTR_POSITION, "custom"), <<"Custom">>))
  ELSE Pure(c, ReturnNone)

AlexaModeController_configuration(c) ==
  IF is_capability_resource(c._resource) THEN serialize_configuration(c._resource)
  ELSE ReturnNone

AlexaModeController_semantics(c) ==
  IF c.instance = dotted(cover_DOMAIN, cover_ATTR_POSITION)
  THEN StoreSemantics(c,
         add_states_to_value(
           add_states_to_value(
             add_action_to_directive(
               add_action_to_directive(AlexaSemantics,
                 <<"Alexa.Actions.Close", "Alexa.Actions.Lower">>, "SetMode",
                 [mode |-> dotted(cover_ATTR_POSITION, cover_STATE_CLOSED)]),
               <<"Alexa.Actions.Open", "Alexa.Actions.Raise">>, "SetMode",
               [mode |-> dotted(cover_ATTR_POSITION, cover_STATE_OPEN)]),
             <<"Alexa.States.Closed">>, dotted(cover_ATTR_POSITION, cover_STATE_CLOSED)),
           <<"Alexa.States.Open">>, dotted(cover_ATTR_POSITION, cover_STATE_OPEN)))
  ELSE Pure(c, ReturnNone)

\* The input_number branch: attributes[min] and attributes[max] raise
\* KeyError when missing, float() raises ValueError on a non-numeric string.
AlexaRangeController_input_number_resources(c, e) ==
  LET a == e.attributes
      step == float(attributes_get(e, input_number_ATTR_STEP, Num(1)))
      unit == attributes_get(e, ATTR_UNIT_OF_MEASUREMENT, None)
  IN IF input_number_ATTR_MIN \notin DOMAIN a THEN Pure(c, Raise("KeyError"))
     ELSE IF float(a[input_number_ATTR_MIN]).k = "raise"
     THEN Pure(c, float(a[input_number_ATTR_MIN]))
     ELSE IF input_number_ATTR_MAX \notin DOMAIN a THEN Pure(c, Raise("KeyError"))
     ELSE IF float(a[input_number_ATTR_MAX]).k = "raise"
     THEN Pure(c, float(a[input_number_ATTR_MAX]))
     ELSE IF step.k = "raise" THEN Pure(c, step)
     ELSE LET min_value == float(a[input_number_ATTR_MIN]).v
              max_value == float(a[input_number_ATTR_MAX]).v
          IN StoreResource(c,
               add_preset(
                 add_preset(
                   AlexaPresetResource(<<"Value">>, min_value, max_value, step.v, unit),
                   min_value, <<"Alexa.Value.Minimum">>),
                 max_value, <<"Alexa.Value.Maximum">>))

AlexaRangeController_capability_resources(c, e) ==
  IF c.instance = dotted(fan_DOMAIN, fan_ATTR_SPEED)
  THEN StoreResource(c,
         add_preset(
           add_preset(
             add_preset(AlexaPresetResource(<<"Alexa.Setting.FanSpeed">>, 1, 3, 1, None),
                        1, <<"Alexa.Value.Low", "Alexa.Value.Minimum">>),
             2, <<"Alexa.Value.Medium">>),
           3, <<"Alexa.Value.High", "Alexa.Value.Maximum">>))
  ELSE IF c.instance = dotted(cover_DOMAIN, cover_ATTR_POSITION)
  THEN StoreResource(c,
         AlexaPresetResource(<<"Position", "Alexa.Setting.Opening">>, 0, 100, 1,
                             "Alexa.Unit.Percent"))
  ELSE IF c.instance = dotted(cover_DOMAIN, cover_ATTR_TILT_POSITION)
  THEN StoreResource(c,
         AlexaPresetResource(<<"Tilt Position", "Alexa.Setting.Opening">>, 0, 100, 1,
                             "Alexa.Unit.Percent"))
  ELSE IF c.instance = dotted(input_number_DOMAIN, input_number_ATTR_VALUE)
  THEN AlexaRangeController_input_number_resources(c, e)
  ELSE Pure(c, ReturnNone)

AlexaRangeController_configuration(c) ==
  IF is_capability_resource(c._resource) THEN serialize_configuration(c._resource)
  ELSE ReturnNone

\* The semantics of a range whose lower end is closed and upper end open.
range_semantics(lower_action, raise_action) ==
  add_states_to_range(
    add_states_to_value(
      add_action_to_directive(
        add_action_to_directive(AlexaSemantics,
          <<lower_action>>, "SetRangeValue", [rangeValue |-> 0]),
        <<raise_action>>, "SetRangeValue", [rangeValue |-> 100]),
      <<"Alexa.States.Closed">>, 0),
    <<"Alexa.States.Open">>, 1, 100)

AlexaRangeController_semantics(c) ==
  IF c.instance = dotted(cover_DOMAIN, cover_ATTR_POSITION)
  THEN StoreSemantics(c, range_semantics("Alexa.Actions.Lower", "Alexa.Actions.Raise"))
  ELSE IF c.instance = dotted(cover_DOMAIN, cover_ATTR_TILT_POSITION)
  THEN StoreSemantics(c, range_semantics("Alexa.Actions.Close", "Alexa.Actions.Open"))
  ELSE Pure(c, ReturnNone)

AlexaToggleController_capability_resources(c) ==
  IF c.instance = dotted(fan_DOMAIN, fan_ATTR_OSCILLATING)
  THEN StoreResource(c,
         AlexaCapabilityResource(<<"Alexa.Setting.Oscillate", "Rotate", "Rotation">>))
  ELSE Pure(c, ReturnNone)

\* capability_resources(): [] in the base class.
capability_resources(c, e) ==
  CASE c.cls = "AlexaModeController" -> AlexaModeController_capability_resources(c)
    [] c.cls = "AlexaRangeController" -> AlexaRangeController_capability_resources(c, e)
    [] c.cls = "AlexaToggleController" -> AlexaToggleController_capability_resources(c)
    [] OTHER -> Pure(c, Return(<<>>))

\* configuration(): [] in the base class.
configuration(c, e) ==
  CASE c.cls = "AlexaThermostatController" -> AlexaThermostatController_configuration(e)
    [] c.cls = "AlexaSecurityPanelController" ->
         AlexaSecurityPanelController_configuration(e)
    [] c.cls = "AlexaModeController" -> AlexaModeController_configuration(c)
    [] c.cls = "AlexaRangeController" -> AlexaRangeController_configuration(c)
    [] c.cls = "AlexaEventDetectionSensor" -> AlexaEventDetectionSensor_configuration
    [] OTHER -> Return(<<>>)

\* semantics(): [] in the base class.
semantics(c) ==
  CASE c.cls = "AlexaModeController" -> AlexaModeController_semantics(c)
    [] c.cls = "AlexaRangeController" -> AlexaRangeController_semantics(c)
    [] OTHER -> Pure(c, Return(<<>>))

-----------------------------------------------------------------------------
(* The two serialization entry points of AlexaCapability *)

\* Variant: "if value: result[key] = value" for a hook returning a flag.
set_if_not_none_truthy(result, key, out) ==
  IF out.k # "None" /\ out.v THEN (key :> out.v) @@ result ELSE result

\* "if value is not None: result[key] = value"
set_if_not_none(result, key, out) ==
  IF out.k # "None" THEN (key :> out.v) @@ result ELSE result

\* Variant: "if value is not None: result[key] = value" for a list or dict.
set_if_truthy_not_none(result, key, out) ==
  IF out.k # "None" THEN (key :> out.v) @@ result ELSE result

\* "if value: result[key] = value"
set_if_truthy(result, key, out) ==
  IF Truthy(out) THEN (key :> out.v) @@ result ELSE result

\* result["properties"]["nonControllable"] = ... raises KeyError when
\* properties_supported() is empty, as there is no properties key then.
key_error(c, e) ==
  properties_non_controllable(c).k # "None" /\ properties_supported(c, e) = <<>>

\* The document serialize_discovery() builds, given what capability_resources(),
\* configuration() and semantics() returned.
discovery_document(c, e, resources, config, sem) ==
  LET result0 == ("type" :> "AlexaInterface") @@ ("interface" :> name(c))
                 @@ ("version" :> "3")
      result1 == IF c.instance # None
                 THEN ("instance" :> c.instance) @@ result0 ELSE result0
      supported == properties_supported(c, e)
      result2 == IF supported # <<>>
                 THEN ("properties" :>
                         [supported |-> supported,
                          proactivelyReported |-> properties_proactively_reported(c),
                          retrievable |-> properties_retrievable(c)]) @@ result1
                 ELSE result1
      proactively_reported == capability_proactively_reported(c)
      result3 == set_if_not_none(result2, "proactivelyReported", proactively_reported)
      non_controllable == properties_non_controllable(c)
      result4 == IF non_controllable.k # "None"
                 THEN ("properties" :>
                         set_if_not_none(result3["properties"], "nonControllable",
                                         non_controllable)) @@ result3
                 ELSE result3
      deactivation == supports_deactivation(c)
      result5 == set_if_not_none(result4, "supportsDeactivation", deactivation)
      result6 == set_if_truthy(result5, "capabilityResources", resources)
      result7 == set_if_truthy(result6, "configuration", config)
      result8 == set_if_truthy(result7, "semantics", sem)
      operations == supported_operations(c, e)
      result9 == set_if_truthy(result8, "supportedOperations", Return(operations))
      input_list == inputs(c, e)
      result10 == set_if_truthy(result9, "inputs", Return(input_list))
  IN result10

\* Variant: configuration() is called before capability_resources().
serialize_discovery_configuration_first(c, e) ==
  LET config == configuration(c, e)
      resources == capability_resources(c, e)
      sem == semantics(resources.cap)
  IN IF key_error(c, e) THEN Pure(c, Raise("KeyError"))
     ELSE IF config.k = "raise" THEN Pure(c, config)
     ELSE IF resources.out.k = "raise" THEN resources
     ELSE [cap |-> sem.cap,
           out |-> Return(discovery_document(c, e, resources.out, config, sem.out))]

\* serialize_discovery(): the document, or the exception of the first hook
\* that raises; cap is the capability after the call.
serialize_discovery(c, e) ==
  LET resources == capability_resources(c, e)
      config == configuration(resources.cap, e)
      sem == semantics(resources.cap)
  IN IF key_error(c, e) THEN Pure(c, Raise("KeyError"))
     ELSE IF resources.out.k = "raise" THEN resources
     ELSE IF config.k = "raise" THEN [cap |-> resources.cap, out |-> config]
     ELSE [cap |-> sem.cap,
           out |-> Return(discovery_document(c, e, resources.out, config, sem.out))]

\* dt_util.utcnow().strftime(DATE_FORMAT): the clock is not modelled, every
\* report carries the same reading.
utcnow == "1970-01-01T00:00:00.0Z"

\* The fragment yielded for a property whose value is not None.
fragment(c, prop_name, prop_value) ==
  LET result == [name |-> prop_name, namespace |-> name(c), value |-> prop_value,
                 timeOfSample |-> utcnow, uncertaintyInMilliseconds |-> 0]
  IN IF c.instance # None THEN ("instance" :> c.instance) @@ result ELSE result

\* The generator of serialize_properties.  st is "none" (no generator),
\* "created" (not started), "suspended" (at the yield), "done" (exhausted)
\* or "raised"; props is the list being iterated, i the next index, out the
\* fragments yielded so far, exc the exception that ended it.
NoGenerator == [st |-> "none", props |-> <<>>, i |-> 0, out |-> <<>>, exc |-> None]

\* Variant: a property whose value is None is reported as unsupported.
RECURSIVE generator_run_none_unsupported(_, _, _, _)
generator_run_none_unsupported(c, e, h, g) ==
  IF g.i > Len(g.props) THEN [g EXCEPT !.st = "done"]
  ELSE LET prop_name == g.props[g.i].name
           prop_value == get_property(c, e, h, prop_name)
       IN IF prop_value.k = "raise"
          THEN [g EXCEPT !.st = "raised", !.exc = prop_value.exc]
          ELSE IF prop_value.k # "None"
          THEN [g EXCEPT !.st = "suspended", !.i = g.i + 1,
                         !.out = Append(@, fragment(c, prop_name, prop_value.v))]
          ELSE [g EXCEPT !.st = "raised", !.exc = "UnsupportedProperty"]

\* Variant: a property whose get_property raises is skipped like a None value.
RECURSIVE generator_run_skipping_raise(_, _, _, _)
generator_run_skipping_raise(c, e, h, g) ==
  IF g.i > Len(g.props) THEN [g EXCEPT !.st = "done"]
  ELSE LET prop_name == g.props[g.i].name
           prop_value == get_property(c, e, h, prop_name)
       IN IF prop_value.k = "value"
          THEN [g EXCEPT !.st = "suspended", !.i = g.i + 1,
                         !.out = Append(@, fragment(c, prop_name, prop_value.v))]
          ELSE generator_run_skipping_raise(c, e, h, [g EXCEPT !.i = g.i + 1])

\* The loop from index i to the next yield, the end of props, or a raise.
RECURSIVE generator_run(_, _, _, _)
generator_run(c, e, h, g) ==
  IF g.i > Len(g.props) THEN [g EXCEPT !.st = "done"]
  ELSE LET prop_name == g.props[g.i].name
           prop_value == get_property(c, e, h, prop_name)
       IN IF prop_value.k = "raise"
          THEN [g EXCEPT !.st = "raised", !.exc = prop_value.exc]
          ELSE IF prop_value.k # "None"
          THEN [g EXCEPT !.st = "suspended", !.i = g.i + 1,
                         !.out = Append(@, fragment(c, prop_name, prop_value.v))]
          ELSE generator_run(c, e, h, [g EXCEPT !.i = g.i + 1])

\* next() on the generator: the first next() evaluates properties_supported().
generator_next(c, e, h, g) ==
  IF g.st = "created"
  THEN generator_run(c, e, h, [g EXCEPT !.props = properties_supported(c, e), !.i = 1])
  ELSE generator_run(c, e, h, g)

-----------------------------------------------------------------------------
(* homeassistant/components/incomfort/water_heater.py *)

\* max(a, b) of two numbers
max(a, b) == IF b > a THEN b ELSE a

\* Variant: the pump is looked at before the tap.
IncomfortWaterHeater_current_temperature_pumping_first(h) ==
  IF h.is_pumping THEN Return(h.heater_temp)
  ELSE IF h.is_tapping THEN Return(h.tap_temp)
  ELSE Return(max(h.heater_temp, h.tap_temp))

\* IncomfortWaterHeater.current_temperature over self._heater
IncomfortWaterHeater_current_temperature(h) ==
  IF h.is_tapping THEN Return(h.tap_temp)
  ELSE IF h.is_pumping THEN Return(h.heater_temp)
  ELSE Return(max(h.heater_temp, h.tap_temp))

-----------------------------------------------------------------------------
(* capability_resources() and semantics() statement by statement.  Both      *)
(* assign a new object to the attribute of self, then add to the object      *)
(* through the attribute, once per add_mode, add_preset, add_action_to_      *)
(* directive or add_states_to_ call, and return what the object the          *)
(* attribute then refers to serializes to.                                   *)

\* A reference to the object at index at of heap.
Ref(at) == [cls |-> "ref", at |-> at]

Statement(op, field, list, item) == [op |-> op, field |-> field, list |-> list, item |-> item]

\* self.<field>.add_...(item), once for each item.
add_statements(field, list, items) ==
  [i \in 1..Len(items) |-> Statement("add", field, list, items[i])]

\* The statements that build the resource r.
resource_statements(r) ==
  LET list == IF r.cls = "AlexaModeResource" THEN "modes"
              ELSE IF r.cls = "AlexaPresetResource" THEN "presets" ELSE None
      new == IF list = None THEN r ELSE [r EXCEPT ![list] = <<>>]
      items == IF list = None THEN <<>> ELSE r[list]
  IN <<Statement("new", "_resource", None, new)>>
     \o add_statements("_resource", list, items)
     \o <<Statement("return", "_resource", None, None)>>

\* capability_resources(): the branch of the instance, or a plain return of
\* None (an unknown instance), [] (the base class) or an exception raised
\* before anything is assigned.
capability_resources_statements(c, e) ==
  LET built == capability_resources([c EXCEPT !._resource = NoResource], e)
  IN IF built.cap._resource = NoResource
     THEN <<Statement("return_value", None, None, built.out)>>
     ELSE resource_statements(built.cap._resource)

\* semantics(): the branch of the instance, or a plain return.
semantics_statements(c) ==
  LET built == semantics([c EXCEPT !._semantics = NoSemantics])
      sem == built.cap._semantics
  IN IF sem = NoSemantics
     THEN <<Statement("return_value", None, None, built.out)>>
     ELSE <<Statement("new", "_semantics", None, AlexaSemantics)>>
          \o add_statements("_semantics", "action_mappings", sem.action_mappings)
          \o add_statements("_semantics", "state_mappings", sem.state_mappings)
          \o <<Statement("return", "_semantics", None, None)>>

\* What "return self.<field>.serialize_...()" returns for the object obj.
serialize_field(field, obj) ==
  IF field = "_resource" THEN Return(serialize_capability_resources(obj))
  ELSE Return(serialize_semantics(obj))

\* The capability with the objects its attributes refer to in store.
Deref(c, store) ==
  [c EXCEPT !._resource = IF @.cls = "ref" THEN store[@.at] ELSE @,
            !._semantics = IF @.cls = "ref" THEN store[@.at] ELSE @]

-----------------------------------------------------------------------------
(* Capabilities, entities and host configurations the model is run on *)

\* Longest hvac_modes list of a climate entity.
MaxModes == 2

\* Most serialize_discovery calls made one after the other on a capability.
MaxDiscoveries == 2

\* Highest reading of the boiler, in degrees.
MaxReading == 4

\* AlexaCapability.__init__; the Mode, Range and Toggle constructors add
\* _resource and _semantics, arg is the extra constructor argument
\* (non_controllable, supports_deactivation) of the classes that take one.
Capability(cls, instance, arg) ==
  [cls |-> cls, instance |-> instance, arg |-> arg,
   _resource |-> NoResource, _semantics |-> NoSemantics]

Entity(domain, state, attributes) ==
  [domain |-> domain, state |-> state, attributes |-> attributes]

\* hass.config.units
Hass(unit) == [temperature_unit |-> unit]

Input(c, e, h) == [cap |-> c, entity |-> e, hass |-> h]

\* An attribute that is missing or holds one of the values.
Opt(key, values) == {<<>>} \cup {key :> v : v \in values}

\* The lists of at most n distinct elements of S.
ListsUpTo(S, n) ==
  {l \in UNION {[1..k -> S] : k \in 0..n} :
     \A i, j \in DOMAIN l : l[i] = l[j] => i = j}

AllUnits == {Hass(TEMP_CELSIUS), Hass(TEMP_FAHRENHEIT)}

\* Classes that add nothing to the base class but a name.
BareClasses ==
  {"Alexa", "AlexaSpeaker", "AlexaStepSpeaker", "AlexaChannelController",
   "AlexaSeekController", "AlexaDoorbellEventSource"}

BareInputs ==
  {Input(Capability(cls, i, FALSE), Entity("media_player", st, <<>>), Hass(TEMP_CELSIUS)) :
     cls \in BareClasses, i \in {None, "media_player.zone"},
     st \in {STATE_ON, STATE_UNAVAILABLE}}

SceneInputs ==
  {Input(Capability("AlexaSceneController", None, arg),
         Entity("scene", "scening", <<>>), Hass(TEMP_CELSIUS)) : arg \in BOOLEAN}

\* Classes whose property depends on the state only.
StateClasses ==
  {"AlexaEndpointHealth", "AlexaLockController", "AlexaContactSensor",
   "AlexaMotionSensor", "AlexaPlaybackStateReporter"}

StateInputs ==
  {Input(Capability(cls, None, FALSE), Entity("binary_sensor", st, <<>>),
         Hass(TEMP_CELSIUS)) :
     cls \in StateClasses,
     st \in {STATE_ON, STATE_OFF, STATE_LOCKED, STATE_UNLOCKED, "jammed", "",
             STATE_PLAYING, STATE_PAUSED, "idle", STATE_UNAVAILABLE, STATE_UNKNOWN}}

PowerInputs ==
  {Input(Capability("AlexaPowerController", None, FALSE), Entity(d, st, <<>>),
         Hass(TEMP_CELSIUS)) :
     d \in {climate_DOMAIN, light_DOMAIN},
     st \in {STATE_ON, STATE_OFF, "heat", STATE_UNAVAILABLE, STATE_UNKNOWN}}

LightInputs ==
  {Input(Capability("AlexaBrightnessController", None, FALSE),
         Entity(light_DOMAIN, STATE_ON, a), Hass(TEMP_CELSIUS)) :
     a \in Opt(light_ATTR_BRIGHTNESS, 0..255)}
  \cup
  {Input(Capability("AlexaColorController", None, FALSE),
         Entity(light_DOMAIN, STATE_ON, hs @@ b), Hass(TEMP_CELSIUS)) :
     hs \in Opt(light_ATTR_HS_COLOR, {<<0, 0>>, <<120, 50>>}),
     b \in Opt(light_ATTR_BRIGHTNESS, {0, 128, 255})}
  \cup
  {Input(Capability("AlexaColorTemperatureController", None, FALSE),
         Entity(light_DOMAIN, STATE_ON, a), Hass(TEMP_CELSIUS)) :
     a \in Opt("color_temp", {153, 250, 500})}

FanSpeeds == Opt(fan_ATTR_SPEED, {"off", "low", "medium", "high", "turbo"})

PercentageInputs ==
  {Input(Capability(cls, None, FALSE), e, Hass(TEMP_CELSIUS)) :
     cls \in {"AlexaPercentageController", "AlexaPowerLevelController"},
     e \in {Entity(fan_DOMAIN, STATE_ON, a) : a \in FanSpeeds}
           \cup {Entity(cover_DOMAIN, cover_STATE_OPEN, a) :
                   a \in Opt(cover_ATTR_CURRENT_POSITION, {0, 50, 100})}
           \cup {Entity(light_DOMAIN, STATE_ON, <<>>)}}

MediaPlayerInputs ==
  {Input(Capability("AlexaPlaybackController", None, FALSE),
         Entity("media_player", STATE_PLAYING, a), Hass(TEMP_CELSIUS)) :
     a \in Opt(ATTR_SUPPORTED_FEATURES, {0, 1, 16, 33, 4096, 16384, 20529})}
  \cup
  {Input(Capability("AlexaInputController", None, FALSE),
         Entity("media_player", STATE_PLAYING, a), Hass(TEMP_CELSIUS)) :
     a \in Opt(media_player_ATTR_INPUT_SOURCE_LIST,
               {<<>>, <<"HDMI 1">>, <<"Net-Flix">>, <<"hdmi_1", "Net-Flix", "TV">>})}

\* A temperature as an attribute carries it.
Temperatures == {PyNone, Num(21), Str("1e1"), Str("abc")}

TemperatureSensorInputs ==
  {Input(Capability("AlexaTemperatureSensor", None, FALSE),
         Entity("sensor", st, a), Hass(TEMP_CELSIUS)) :
     st \in {"21", "1e1", "abc", STATE_UNAVAILABLE, STATE_UNKNOWN, None},
     a \in Opt(ATTR_UNIT_OF_MEASUREMENT, {TEMP_CELSIUS, TEMP_FAHRENHEIT, "K"})}
  \cup
  {Input(Capability("AlexaTemperatureSensor", None, FALSE),
         Entity(climate_DOMAIN, "heat", a), h) :
     a \in Opt(climate_ATTR_CURRENT_TEMPERATURE, Temperatures), h \in AllUnits}

\* States of a climate entity: mapped modes, an unmapped one, unavailable.
ThermostatStates == {"heat", "auto", "idle", STATE_UNAVAILABLE}

\* Climate entities that differ in what the properties read.
ThermostatPropertyEntities ==
  {Entity(climate_DOMAIN, st,
          ((climate_ATTR_HVAC_MODES :> <<"heat", "auto">>) @@ p) @@ t @@ lh @@ f) :
     st \in ThermostatStates,
     p \in Opt(climate_ATTR_PRESET_MODE, {"eco", "away"}),
     t \in Opt(ATTR_TEMPERATURE, Temperatures),
     lh \in {<<>>,
             (climate_ATTR_TARGET_TEMP_LOW :> Num(18))
               @@ (climate_ATTR_TARGET_TEMP_HIGH :> Num(24)),
             (climate_ATTR_TARGET_TEMP_LOW :> Str("21"))
               @@ (climate_ATTR_TARGET_TEMP_HIGH :> Str("abc"))},
     f \in Opt(ATTR_SUPPORTED_FEATURES, {1, 2, 3})}

\* The entries of an hvac_modes list: mapped modes, two of them to the same
\* Alexa mode, and one without a table entry.
HvacModes == {"heat", "heat_cool", "auto", "purify"}

\* Climate entities that differ in what configuration() reads.  hvac_modes is
\* a capability attribute of the climate platform: every climate entity
\* carries the list, preset_modes only when it supports presets.
ThermostatConfigurationEntities ==
  {Entity(climate_DOMAIN, "heat", (climate_ATTR_HVAC_MODES :> hm) @@ pm) :
     hm \in ListsUpTo(HvacModes, MaxModes),
     pm \in Opt(climate_ATTR_PRESET_MODES, {<<>>, <<"eco">>, <<"away", "eco">>})}

ThermostatInputs ==
  {Input(Capability("AlexaThermostatController", None, FALSE), e, h) :
     e \in ThermostatPropertyEntities, h \in AllUnits}
  \cup
  {Input(Capability("AlexaThermostatController", None, FALSE), e, Hass(TEMP_CELSIUS)) :
     e \in ThermostatConfigurationEntities}

SecurityPanelInputs ==
  {Input(Capability("AlexaSecurityPanelController", None, FALSE),
         Entity("alarm_control_panel", st, a), Hass(TEMP_CELSIUS)) :
     st \in {STATE_ALARM_ARMED_HOME, STATE_ALARM_ARMED_AWAY, STATE_ALARM_ARMED_NIGHT,
             STATE_ALARM_ARMED_CUSTOM_BYPASS, "disarmed", "pending",
             STATE_UNAVAILABLE},
     a \in Opt(ATTR_CODE_FORMAT, {FORMAT_NUMBER, "text"})}

\* Entities the Mode, Range and Toggle controllers are attached to.
FanEntities ==
  {Entity(fan_DOMAIN, STATE_ON, sp @@ d @@ o) :
     sp \in Opt(fan_ATTR_SPEED, {"low", "turbo"}),
     d \in Opt(fan_ATTR_DIRECTION,
               {fan_DIRECTION_FORWARD, fan_DIRECTION_REVERSE, STATE_UNKNOWN, "up"}),
     o \in Opt(fan_ATTR_OSCILLATING, BOOLEAN)}

CoverEntities ==
  {Entity(cover_DOMAIN, st, p @@ t) :
     st \in {cover_STATE_OPEN, cover_STATE_OPENING, cover_STATE_CLOSED,
             cover_STATE_CLOSING, STATE_UNKNOWN, STATE_UNAVAILABLE},
     p \in Opt(cover_ATTR_CURRENT_POSITION, {50}),
     t \in Opt(cover_ATTR_CURRENT_TILT_POSITION, {30})}

\* min and max are attributes every input_number entity carries.
InputNumberEntities ==
  {Entity(input_number_DOMAIN, st,
          (input_number_ATTR_MIN :> Num(0)) @@ (input_number_ATTR_MAX :> mx) @@ sp) :
     st \in {"21", "1e1", STATE_UNKNOWN, STATE_UNAVAILABLE},
     mx \in {Num(100), Str("21")},
     sp \in Opt(input_number_ATTR_STEP, {Num(2)})}

ModeInstances ==
  {dotted(fan_DOMAIN, fan_ATTR_DIRECTION), dotted(cover_DOMAIN, cover_ATTR_POSITION),
   dotted(light_DOMAIN, "effect")}

RangeInstances ==
  {dotted(fan_DOMAIN, fan_ATTR_SPEED), dotted(cover_DOMAIN, cover_ATTR_POSITION),
   dotted(cover_DOMAIN, cover_ATTR_TILT_POSITION),
   dotted(input_number_DOMAIN, input_number_ATTR_VALUE), dotted(light_DOMAIN, "effect")}

ToggleInstances ==
  {dotted(fan_DOMAIN, fan_ATTR_OSCILLATING), dotted(light_DOMAIN, "effect")}

ControllerInputs ==
  {Input(Capability("AlexaModeController", i, arg), e, Hass(TEMP_CELSIUS)) :
     i \in ModeInstances, arg \in BOOLEAN, e \in FanEntities \cup CoverEntities}
  \cup
  {Input(Capability("AlexaRangeController", i, arg), e, Hass(TEMP_CELSIUS)) :
     i \in RangeInstances, arg \in BOOLEAN,
     e \in FanEntities \cup CoverEntities \cup InputNumberEntities}
  \cup
  {Input(Capability("AlexaToggleController", i, arg), e, Hass(TEMP_CELSIUS)) :
     i \in ToggleInstances, arg \in BOOLEAN, e \in FanEntities}

EventDetectionInputs ==
  {Input(Capability("AlexaEventDetectionSensor", None, FALSE),
         Entity(image_processing_DOMAIN, st, <<>>), Hass(TEMP_CELSIUS)) :
     st \in {"0", "2", "abc", STATE_UNAVAILABLE, STATE_UNKNOWN, None}}
  \cup
  {Input(Capability("AlexaEventDetectionSensor", None, FALSE),
         Entity("binary_sensor", st, <<>>), Hass(TEMP_CELSIUS)) :
     st \in {STATE_ON, STATE_OFF, STATE_UNAVAILABLE, STATE_UNKNOWN, None}}

Inputs ==
  BareInputs \cup SceneInputs \cup StateInputs \cup PowerInputs \cup LightInputs
  \cup PercentageInputs \cup MediaPlayerInputs \cup TemperatureSensorInputs
  \cup ThermostatInputs \cup SecurityPanelInputs \cup ControllerInputs
  \cup EventDetectionInputs

\* Every declared property name, and one that no class declares.
PropertyNames ==
  {"connectivity", "powerState", "lockState", "brightness", "color",
   "colorTemperatureInKelvin", "percentage", "temperature", "detectionState",
   "thermostatMode", "targetSetpoint", "lowerSetpoint", "upperSetpoint",
   "powerLevel", "armState", "mode", "rangeValue", "toggleState", "playbackState",
   "humanPresenceDetectionState", "volume"}

\* The names the get_property of a class compares the name with.
HandledNames(cls) ==
  CASE cls = "AlexaEndpointHealth" -> {"connectivity"}
    [] cls = "AlexaPowerController" -> {"powerState"}
    [] cls = "AlexaLockController" -> {"lockState"}
    [] cls = "AlexaBrightnessController" -> {"brightness"}
    [] cls = "AlexaColorController" -> {"color"}
    [] cls = "AlexaColorTemperatureController" -> {"colorTemperatureInKelvin"}
    [] cls = "AlexaPercentageController" -> {"percentage"}
    [] cls = "AlexaTemperatureSensor" -> {"temperature"}
    [] cls \in {"AlexaContactSensor", "AlexaMotionSensor"} -> {"detectionState"}
    [] cls = "AlexaThermostatController" ->
         {"thermostatMode", "targetSetpoint", "lowerSetpoint", "upperSetpoint"}
    [] cls = "AlexaPowerLevelController" -> {"powerLevel"}
    [] cls = "AlexaSecurityPanelController" -> {"armState"}
    [] cls = "AlexaModeController" -> {"mode"}
    [] cls = "AlexaRangeController" -> {"rangeValue"}
    [] cls = "AlexaToggleController" -> {"toggleState"}
    [] cls = "AlexaPlaybackStateReporter" -> {"playbackState"}
    [] cls = "AlexaEventDetectionSensor" -> {"humanPresenceDetectionState"}
    [] OTHER -> {}

\* The names get_property is called with on the capability c: those its
\* class compares the name with, and of the names it compares with none, two
\* that other classes declare and one that no class declares.
NamesTried(c) == HandledNames(c.cls) \cup {"temperature", "connectivity", "volume"}

-----------------------------------------------------------------------------
(* The state machine: a capability over an entity, the last call made on it  *)
(* and the serialize_properties generator being consumed.                    *)

Call(op, arg, out) == [op |-> op, arg |-> arg, out |-> out]

\* The callers of serialize_discovery in SpecConcurrent.
Threads == {"t1", "t2"}

\* A thread that has not called yet.  pc is the hook the thread is in, ip the
\* next statement of that hook, resources and config what capability_resources()
\* and configuration() returned to it, out what serialize_discovery returned.
IdleThread ==
  [pc |-> "idle", ip |-> 0, resources |-> ReturnNone, config |-> ReturnNone,
   out |-> ReturnNone]

\* No water heater: the capability layer has none.
NoHeater == [is_tapping |-> FALSE, is_pumping |-> FALSE, heater_temp |-> 0, tap_temp |-> 0]

Init ==
  /\ \E in \in Inputs :
       /\ cap = in.cap
       /\ entity = in.entity
       /\ hass = in.hass
  /\ call = Call("init", None, ReturnNone)
  /\ gen = NoGenerator
  /\ discoveries = 0
  /\ heap = <<>>
  /\ threads = [t \in Threads |-> IdleThread]
  /\ heater = NoHeater

\* capability.get_property(n)
GetProperty(n) ==
  /\ n \in NamesTried(cap)
  /\ call' = Call("get_property", n, get_property(cap, entity, hass, n))
  /\ UNCHANGED <<cap, entity, hass, gen, discoveries, heap, threads, heater>>

\* capability.name()
Name ==
  /\ call' = Call("name", None, Return(name(cap)))
  /\ UNCHANGED <<cap, entity, hass, gen, discoveries, heap, threads, heater>>

\* capability.serialize_discovery()
SerializeDiscovery ==
  /\ discoveries < MaxDiscoveries
  /\ discoveries' = discoveries + 1
  /\ cap' = serialize_discovery(cap, entity).cap
  /\ call' = Call("serialize_discovery", None, serialize_discovery(cap, entity).out)
  /\ UNCHANGED <<entity, hass, gen, heap, threads, heater>>

\* capability.capability_resources()
CapabilityResources ==
  /\ cap' = capability_resources(cap, entity).cap
  /\ call' = Call("capability_resources", None, capability_resources(cap, entity).out)
  /\ UNCHANGED <<entity, hass, gen, discoveries, heap, threads, heater>>

\* Variant: configuration() takes preset_modes out of the attributes
\* (attributes.pop instead of attributes.get).
Configuration_popping_preset_modes ==
  /\ call' = Call("configuration", None, configuration(cap, entity))
  /\ entity' = [entity EXCEPT !.attributes =
                  [k \in DOMAIN @ \ {climate_ATTR_PRESET_MODES} |-> @[k]]]
  /\ UNCHANGED <<cap, hass, gen, discoveries, heap, threads, heater>>

\* capability.configuration()
Configuration ==
  /\ call' = Call("configuration", None, configuration(cap, entity))
  /\ UNCHANGED <<cap, entity, hass, gen, discoveries, heap, threads, heater>>

\* capability.semantics()
Semantics ==
  /\ cap' = semantics(cap).cap
  /\ call' = Call("semantics", None, semantics(cap).out)
  /\ UNCHANGED <<entity, hass, gen, discoveries, heap, threads, heater>>

\* capability.serialize_properties(): creates the generator, runs nothing.
SerializeProperties ==
  /\ gen' = [NoGenerator EXCEPT !.st = "created"]
  /\ UNCHANGED <<cap, entity, hass, call, discoveries, heap, threads, heater>>

\* next() on the generator of serialize_properties.
GeneratorNext ==
  /\ gen.st \in {"created", "suspended"}
  /\ gen' = generator_next(cap, entity, hass, gen)
  /\ UNCHANGED <<cap, entity, hass, call, discoveries, heap, threads, heater>>

Next ==
  \/ \E n \in PropertyNames : GetProperty(n)
  \/ Name
  \/ SerializeDiscovery
  \/ CapabilityResources
  \/ Configuration
  \/ Semantics
  \/ SerializeProperties
  \/ GeneratorNext

Spec == Init /\ [][Next]_vars

-----------------------------------------------------------------------------
(* Two threads in serialize_discovery on one capability *)

\* One entity of each domain for every controller instance, and capabilities
\* without stored state.
ConcurrentInputs ==
  {in \in ControllerInputs :
     /\ in.cap.arg = FALSE
     /\ in.entity.attributes
          \in {<<>>, (input_number_ATTR_MIN :> Num(0)) @@ (input_number_ATTR_MAX :> Num(100)),
               (input_number_ATTR_MIN :> Num(0)) @@ (input_number_ATTR_MAX :> Str("21"))}
     /\ in.entity.state \in {STATE_ON, cover_STATE_OPEN, "21"}}
  \cup SceneInputs \cup SecurityPanelInputs \cup EventDetectionInputs

InitConcurrent ==
  /\ \E in \in ConcurrentInputs :
       /\ cap = in.cap
       /\ entity = in.entity
       /\ hass = in.hass
  /\ call = Call("init", None, ReturnNone)
  /\ gen = NoGenerator
  /\ discoveries = 0
  /\ heap = <<>>
  /\ threads = [t \in Threads |-> IdleThread]
  /\ heater = NoHeater

\* The thread is done: serialize_discovery returned or raised out.
Done(th, out) == [th EXCEPT !.pc = "done", !.out = out]

\* Thread t calls serialize_discovery(): everything up to the call of
\* capability_resources() reads the capability and the entity only.
ThreadCall(t) ==
  /\ threads[t].pc = "idle"
  /\ threads' = [threads EXCEPT ![t] =
                   IF key_error(cap, entity) THEN Done(@, Raise("KeyError"))
                   ELSE [@ EXCEPT !.pc = "capability_resources", !.ip = 1]]
  /\ UNCHANGED <<cap, entity, hass, call, gen, discoveries, heap, heater>>

\* The thread after its hook returned out.
Returned(th, out) ==
  IF out.k = "raise" THEN Done(th, out)
  ELSE IF th.pc = "capability_resources"
  THEN [th EXCEPT !.pc = "configuration", !.resources = out]
  ELSE Done(th, Return(discovery_document(cap, entity, th.resources, th.config, out)))

\* Thread t runs the next statement of capability_resources() or semantics().
ThreadStatement(t) ==
  /\ threads[t].pc \in {"capability_resources", "semantics"}
  /\ LET th == threads[t]
         statements == IF th.pc = "capability_resources"
                       THEN capability_resources_statements(cap, entity)
                       ELSE semantics_statements(cap)
         st == statements[th.ip]
     IN CASE st.op = "new" ->
               /\ heap' = Append(heap, st.item)
               /\ cap' = [cap EXCEPT ![st.field] = Ref(Len(heap) + 1)]
               /\ threads' = [threads EXCEPT ![t].ip = @ + 1]
          [] st.op = "add" ->
               /\ heap' = [heap EXCEPT ![cap[st.field].at][st.list] = Append(@, st.item)]
               /\ threads' = [threads EXCEPT ![t].ip = @ + 1]
               /\ UNCHANGED cap
          [] st.op = "return" ->
               /\ threads' = [threads EXCEPT ![t] =
                                Returned(@, serialize_field(st.field, heap[cap[st.field].at]))]
               /\ UNCHANGED <<cap, heap>>
          [] st.op = "return_value" ->
               /\ threads' = [threads EXCEPT ![t] = Returned(@, st.item)]
               /\ UNCHANGED <<cap, heap>>
  /\ UNCHANGED <<entity, hass, call, gen, discoveries, heater>>

\* Thread t calls configuration(), which reads self._resource.
ThreadConfiguration(t) ==
  /\ threads[t].pc = "configuration"
  /\ LET config == configuration(Deref(cap, heap), entity)
     IN threads' = [threads EXCEPT ![t] =
                      IF config.k = "raise" THEN Done(@, config)
                      ELSE [@ EXCEPT !.pc = "semantics", !.ip = 1, !.config = config]]
  /\ UNCHANGED <<cap, entity, hass, call, gen, discoveries, heap, heater>>

NextConcurrent ==
  \/ \E t \in Threads : ThreadCall(t)
  \/ \E t \in Threads : ThreadStatement(t)
  \/ \E t \in Threads : ThreadConfiguration(t)
  \/ SerializeProperties
  \/ GeneratorNext

SpecConcurrent == InitConcurrent /\ [][NextConcurrent]_vars

-----------------------------------------------------------------------------
(* The InComfort water heater over one status of the boiler *)

\* The heater object of incomfortclient as current_temperature reads it.
Heater(is_tapping, is_pumping, heater_temp, tap_temp) ==
  [is_tapping |-> is_tapping, is_pumping |-> is_pumping,
   heater_temp |-> heater_temp, tap_temp |-> tap_temp]

Heaters ==
  {Heater(t, p, ht, tt) : t \in BOOLEAN, p \in BOOLEAN,
                          ht \in 0..MaxReading, tt \in 0..MaxReading}

InitWaterHeater ==
  /\ heater \in Heaters
  /\ cap = Capability("IncomfortWaterHeater", None, FALSE)
  /\ entity = Entity("water_heater", None, <<>>)
  /\ hass = Hass(TEMP_CELSIUS)
  /\ call = Call("init", None, ReturnNone)
  /\ gen = NoGenerator
  /\ discoveries = 0
  /\ heap = <<>>
  /\ threads = [t \in Threads |-> IdleThread]

\* water_heater.current_temperature
CurrentTemperature ==
  /\ call' = Call("current_temperature", None,
                  IncomfortWaterHeater_current_temperature(heater))
  /\ UNCHANGED <<cap, entity, hass, gen, discoveries, heap, threads, heater>>

NextWaterHeater == CurrentTemperature

SpecWaterHeater == InitWaterHeater /\ [][NextWaterHeater]_vars

-----------------------------------------------------------------------------
(* Properties *)

\* The names declared by properties_supported().
DeclaredNames(c, e) ==
  {properties_supported(c, e)[i].name : i \in DOMAIN properties_supported(c, e)}

IsThermostat == cap.cls = "AlexaThermostatController"

\* C1: for every variant, entity state and feature bitmask, get_property of a
\* name that properties_supported() does not declare raises
\* UnsupportedProperty; it returns neither a value nor None.
C1_UndeclaredNameRaises ==
  (call.op = "get_property" /\ call.arg \notin DeclaredNames(cap, entity))
    => call.out = Raise("UnsupportedProperty")

\* The name and value of each of the first n properties whose value is
\* not None, in the order of props.
RECURSIVE Reported(_, _, _, _, _)
Reported(c, e, h, props, n) ==
  IF n = 0 THEN <<>>
  ELSE Reported(c, e, h, props, n - 1)
       \o (IF get_property(c, e, h, props[n].name).k = "value"
           THEN <<[name |-> props[n].name,
                   value |-> get_property(c, e, h, props[n].name).v]>>
           ELSE <<>>)

\* C2: serialize_properties yields, in the order of properties_supported(),
\* one fragment for each declared property whose value is not None and none
\* for a value of None; it raises only where get_property raises; every
\* fragment has namespace name(), uncertaintyInMilliseconds 0 and an instance
\* key exactly when the instance is set.
C2_FragmentsOfPresentValues ==
  gen.st \in {"suspended", "done", "raised"} =>
    LET props == properties_supported(cap, entity)
        expected == Reported(cap, entity, hass, props, gen.i - 1)
    IN /\ gen.props = props
       /\ Len(gen.out) = Len(expected)
       /\ \A m \in DOMAIN gen.out :
            /\ gen.out[m]["name"] = expected[m].name
            /\ gen.out[m]["value"] = expected[m].value
            /\ gen.out[m]["namespace"] = name(cap)
            /\ gen.out[m]["uncertaintyInMilliseconds"] = 0
            /\ ("instance" \in DOMAIN gen.out[m]) <=> (cap.instance # None)
            /\ ("instance" \in DOMAIN gen.out[m]) => gen.out[m]["instance"] = cap.instance
       /\ gen.st = "done" => gen.i = Len(props) + 1
       /\ gen.st = "suspended" =>
            get_property(cap, entity, hass, props[gen.i - 1].name).k = "value"
       /\ gen.st = "raised" =>
            get_property(cap, entity, hass, props[gen.i].name).k = "raise"

\* A generator ran to its end, yielded a fragment and skipped a None value.
C2_Witness ==
  /\ gen.st = "done"
  /\ Len(gen.out) > 0
  /\ Len(gen.out) < Len(gen.props)

\* Every optional hook returns its default: an empty list or None.
DefaultHooks(c, e) ==
  /\ properties_supported(c, e) = <<>>
  /\ capability_proactively_reported(c).k = "None"
  /\ properties_non_controllable(c).k = "None"
  /\ supports_deactivation(c).k = "None"
  /\ capability_resources(c, e).out \in {ReturnNone, Return(<<>>)}
  /\ configuration(c, e) \in {ReturnNone, Return(<<>>)}
  /\ semantics(c).out \in {ReturnNone, Return(<<>>)}
  /\ supported_operations(c, e) = <<>>
  /\ inputs(c, e) = <<>>

\* C3: with every optional hook at its default, the discovery document has
\* exactly the keys type, interface and version, plus instance if and only
\* if the instance is set.
C3_BareDocument ==
  (call.op = "serialize_discovery" /\ DefaultHooks(cap, entity)) =>
    /\ call.out.k = "value"
    /\ DOMAIN call.out.v
         = {"type", "interface", "version"}
           \cup (IF cap.instance # None THEN {"instance"} ELSE {})
    /\ call.out.v["type"] = "AlexaInterface"
    /\ call.out.v["interface"] = name(cap)
    /\ call.out.v["version"] = "3"
    /\ cap.instance # None => call.out.v["instance"] = cap.instance

\* A capability with default hooks and an instance was serialized.
C3_Witness ==
  /\ call.op = "serialize_discovery"
  /\ DefaultHooks(cap, entity)
  /\ cap.instance # None
  /\ call.out.k = "value"

\* key is in doc exactly when the hook returned something other than None,
\* and then holds what the hook returned.
KeyIffNotNone(doc, key, out) ==
  /\ (key \in DOMAIN doc) <=> (out.k = "value")
  /\ (key \in DOMAIN doc) => doc[key] = out.v

\* key is in doc exactly when the hook returned a list or dict that is not
\* empty, and then holds what the hook returned.
KeyIffNotEmpty(doc, key, out) ==
  /\ (key \in DOMAIN doc) <=> (out.k = "value" /\ out.v # <<>>)
  /\ (key \in DOMAIN doc) => doc[key] = out.v

\* C4: each optional key of a discovery document is present if and only if
\* its hook returned a value that is neither None nor empty, and then holds
\* the hook's return value.
C4_KeysFollowHooks ==
  (call.op = "serialize_discovery" /\ call.out.k = "value") =>
    LET doc == call.out.v
        supported == properties_supported(cap, entity)
    IN /\ ("properties" \in DOMAIN doc) <=> (supported # <<>>)
       /\ ("properties" \in DOMAIN doc) =>
            /\ doc["properties"]["supported"] = supported
            /\ doc["properties"]["proactivelyReported"]
                 = properties_proactively_reported(cap)
            /\ doc["properties"]["retrievable"] = properties_retrievable(cap)
            /\ KeyIffNotNone(doc["properties"], "nonControllable",
                             properties_non_controllable(cap))
       /\ ("properties" \notin DOMAIN doc) => properties_non_controllable(cap).k = "None"
       /\ KeyIffNotNone(doc, "proactivelyReported", capability_proactively_reported(cap))
       /\ KeyIffNotNone(doc, "supportsDeactivation", supports_deactivation(cap))
       /\ KeyIffNotEmpty(doc, "capabilityResources", capability_resources(cap, entity).out)
       /\ KeyIffNotEmpty(doc, "configuration", configuration(cap, entity))
       /\ KeyIffNotEmpty(doc, "semantics", semantics(cap).out)
       /\ KeyIffNotEmpty(doc, "supportedOperations",
                         Return(supported_operations(cap, entity)))
       /\ KeyIffNotEmpty(doc, "inputs", Return(inputs(cap, entity)))

\* A scene controller that cannot be deactivated was serialized: the hook
\* returned False, which is a value.
C4_Witness ==
  /\ call.op = "serialize_discovery"
  /\ call.out.k = "value"
  /\ cap.cls = "AlexaSceneController"
  /\ supports_deactivation(cap) = Return(FALSE)
  /\ "supportsDeactivation" \in DOMAIN call.out.v

\* C5: thermostatMode of an available thermostat is the preset table's value
\* for the preset whenever the preset is in that table, whatever the state;
\* otherwise the mode table's value for the state; and UnsupportedProperty is
\* raised when the state has no entry in the mode table.
C5_ThermostatMode ==
  (/\ IsThermostat
   /\ entity.state # STATE_UNAVAILABLE
   /\ call.op = "get_property"
   /\ call.arg = "thermostatMode") =>
    LET preset == attributes_get(entity, climate_ATTR_PRESET_MODE, None)
    IN IF preset \in DOMAIN API_THERMOSTAT_PRESETS
       THEN call.out = Return(API_THERMOSTAT_PRESETS[preset])
       ELSE IF entity.state \in DOMAIN API_THERMOSTAT_MODES
       THEN call.out = Return(API_THERMOSTAT_MODES[entity.state])
       ELSE call.out = Raise("UnsupportedProperty")

\* thermostatMode was read with a mapped preset on a state without mode.
C5_Witness ==
  /\ IsThermostat
  /\ call.op = "get_property"
  /\ call.arg = "thermostatMode"
  /\ entity.state = "idle"
  /\ attributes_get(entity, climate_ATTR_PRESET_MODE, None) = "eco"
  /\ call.out = Return("ECO")

\* C6, as claimed: get_property of a thermostat whose entity is unavailable
\* raises UnsupportedProperty for the requested name.
C6_UnavailableRaises ==
  (IsThermostat /\ entity.state = STATE_UNAVAILABLE /\ call.op = "get_property")
    => call.out = Raise("UnsupportedProperty")

\* C6, amended: get_property of a thermostat whose entity is unavailable
\* returns None for the requested name and does not raise.
C6_UnavailableReturnsNone ==
  (IsThermostat /\ entity.state = STATE_UNAVAILABLE /\ call.op = "get_property")
    => call.out = ReturnNone

\* A declared property of an unavailable thermostat was read.
C6_Witness ==
  /\ IsThermostat
  /\ entity.state = STATE_UNAVAILABLE
  /\ call.op = "get_property"
  /\ call.arg = "thermostatMode"
  /\ call.out = ReturnNone

\* C7: a state or attribute that does not parse as a number makes
\* get_property return None; the parse failure (ValueError) propagates out
\* of neither get_property nor serialize_properties.
C7_ParseFailureNeverPropagates ==
  /\ call.op = "get_property" => call.out # Raise("ValueError")
  /\ gen.exc # "ValueError"

\* A temperature attribute that is a number or a numeric string.
IsNumeric(x) == x.t = "num" \/ (x.t = "str" /\ x.s \in DOMAIN FloatLiterals)

NumberOf(x) == IF x.t = "num" THEN x.n ELSE FloatLiterals[x.s]

\* The attribute a setpoint property reads.
SetpointAttribute(n) ==
  CASE n = "targetSetpoint" -> ATTR_TEMPERATURE
    [] n = "lowerSetpoint" -> climate_ATTR_TARGET_TEMP_LOW
    [] n = "upperSetpoint" -> climate_ATTR_TARGET_TEMP_HIGH

\* C8: on an available thermostat targetSetpoint, lowerSetpoint and
\* upperSetpoint read temperature, target_temp_low and target_temp_high; any
\* name other than these and thermostatMode raises UnsupportedProperty; an
\* absent or non-numeric attribute gives None; a numeric one gives its value
\* with the scale of the configured temperature unit.
C8_Setpoints ==
  (/\ IsThermostat
   /\ entity.state # STATE_UNAVAILABLE
   /\ call.op = "get_property"
   /\ call.arg # "thermostatMode") =>
    IF call.arg \notin {"targetSetpoint", "lowerSetpoint", "upperSetpoint"}
    THEN call.out = Raise("UnsupportedProperty")
    ELSE LET temp == attributes_get(entity, SetpointAttribute(call.arg), PyNone)
         IN IF temp.t # "None" /\ IsNumeric(temp)
            THEN call.out = Return([value |-> NumberOf(temp),
                                    scale |-> API_TEMP_UNITS[hass.temperature_unit]])
            ELSE call.out = ReturnNone

\* lowerSetpoint was read from a numeric string under Fahrenheit while
\* target_temp_high does not parse.
C8_Witness ==
  /\ IsThermostat
  /\ call.op = "get_property"
  /\ call.arg = "lowerSetpoint"
  /\ attributes_get(entity, climate_ATTR_TARGET_TEMP_HIGH, PyNone) = Str("abc")
  /\ call.out = Return([value |-> 21, scale |-> "FAHRENHEIT"])

\* The elements of a list.
Elements(l) == {l[i] : i \in DOMAIN l}

\* The supportedModes of a configuration, none when the key is missing.
SupportedModes(config) ==
  IF "supportedModes" \in DOMAIN config THEN config["supportedModes"] ELSE <<>>

C10_SupportedModesDistinct ==
  (IsThermostat /\ call.op = "configuration" /\ call.out.k = "value") =>
    LET modes == SupportedModes(call.out.v)
    IN \A i, j \in DOMAIN modes : modes[i] = modes[j] => i = j

\* The instance identifiers the branches of a Mode, Range or Toggle
\* controller compare the instance with.
KnownInstances(cls) ==
  CASE cls = "AlexaModeController" ->
         {dotted(fan_DOMAIN, fan_ATTR_DIRECTION), dotted(cover_DOMAIN, cover_ATTR_POSITION)}
    [] cls = "AlexaRangeController" ->
         {dotted(fan_DOMAIN, fan_ATTR_SPEED), dotted(cover_DOMAIN, cover_ATTR_POSITION),
          dotted(cover_DOMAIN, cover_ATTR_TILT_POSITION),
          dotted(input_number_DOMAIN, input_number_ATTR_VALUE)}
    [] cls = "AlexaToggleController" -> {dotted(fan_DOMAIN, fan_ATTR_OSCILLATING)}
    [] OTHER -> {}

\* The capability is a Mode, Range or Toggle controller whose instance
\* matches none of its branches.
UnknownInstance ==
  /\ cap.cls \in {"AlexaModeController", "AlexaRangeController", "AlexaToggleController"}
  /\ cap.instance \notin KnownInstances(cap.cls)

\* What a controller with an unknown instance does; inherited is what
\* configuration() and semantics() of the Toggle controller, which overrides
\* neither, return.
UnknownInstanceDegrades(inherited) ==
  UnknownInstance =>
    /\ (call.op = "get_property" /\ call.arg \in DeclaredNames(cap, entity))
         => call.out = ReturnNone
    /\ call.op = "capability_resources" => call.out = ReturnNone
    /\ call.op \in {"configuration", "semantics"} =>
         call.out = (IF cap.cls = "AlexaToggleController" THEN inherited ELSE ReturnNone)
    /\ gen.st \in {"suspended", "done", "raised"} => (gen.st = "done" /\ gen.out = <<>>)
    /\ call.op = "serialize_discovery" =>
         /\ call.out.k = "value"
         /\ DOMAIN call.out.v \cap {"capabilityResources", "configuration", "semantics"} = {}

\* C11, as claimed: for a Mode, Range or Toggle controller whose instance
\* matches no known branch, get_property of the declared property,
\* capability_resources(), semantics() and configuration() all return None,
\* serialize_properties yields no fragment, serialize_discovery gives a
\* document without capabilityResources, configuration and semantics, and
\* none of these calls raises.
C11_UnknownInstanceAllNone == UnknownInstanceDegrades(ReturnNone)

\* C11, amended: as claimed, except that configuration() and semantics() of
\* a Toggle controller are the base class's and return the empty list.
C11_UnknownInstanceDegrades == UnknownInstanceDegrades(Return(<<>>))

\* A Toggle controller with an unknown instance over a fan that oscillates
\* was discovered and its properties were reported to the end.
C11_Witness ==
  /\ UnknownInstance
  /\ cap.cls = "AlexaToggleController"
  /\ attributes_get(entity, fan_ATTR_OSCILLATING, FALSE) = TRUE
  /\ call.op = "serialize_discovery"
  /\ call.out.k = "value"
  /\ gen.st = "done"
  /\ gen.out = <<>>

\* The capability as constructed, before any call stored anything on it.
Fresh == Capability(cap.cls, cap.instance, cap.arg)

\* What serialize_discovery() returns when nothing else uses the capability.
AloneDocument == serialize_discovery(Fresh, entity).out

\* The serialize_properties generator after n calls of next() when nothing
\* else uses the capability.
RECURSIVE AloneGenerator(_)
AloneGenerator(n) ==
  IF n = 0 THEN [NoGenerator EXCEPT !.st = "created"]
  ELSE IF AloneGenerator(n - 1).st \in {"created", "suspended"}
  THEN generator_next(Fresh, entity, hass, AloneGenerator(n - 1))
  ELSE AloneGenerator(n - 1)

\* C12: however the statements of two serialize_discovery calls on one
\* capability, and the steps of a serialize_properties consumer, interleave
\* over an unchanging entity, each serialize_discovery call returns the
\* document it returns when run alone, and serialize_properties yields the
\* fragments it yields when run alone.
C12_InterleavingTransparent ==
  /\ \A t \in Threads : threads[t].pc = "done" => threads[t].out = AloneDocument
  /\ gen.st \in {"suspended", "done", "raised"} =>
       \E n \in 1..(Len(gen.props) + 1) : gen = AloneGenerator(n)

\* C13: resources and semantics are rebuilt on every call: every one of any
\* number of serialize_discovery calls made one after the other on a
\* capability over an unchanged entity returns the document the first call
\* on the capability as constructed returns, so that no document holds
\* modes, presets or semantic mappings of an earlier call.
C13_RebuiltOnEveryCall ==
  call.op = "serialize_discovery" => call.out = AloneDocument

\* serialize_discovery returned for the second time on a Mode controller of
\* a cover position, which stores a resource with modes and semantics.
C13_Witness ==
  /\ call.op = "serialize_discovery"
  /\ discoveries = 2
  /\ cap.cls = "AlexaModeController"
  /\ cap.instance = dotted(cover_DOMAIN, cover_ATTR_POSITION)
  /\ call.out.k = "value"
  /\ Len(call.out.v["semantics"]["actionMappings"]) = 2
  /\ Len(call.out.v["configuration"]["supportedModes"]) = 3

\* C14: no operation of a capability changes the wrapped entity: its domain,
\* state and attributes (the feature bitmask is one of them) are after every
\* call, also one that raises, what they were before.
C14_EntityUnchanged == [][entity' = entity]_vars

\* get_property raised on an entity with attributes and a generator over
\* the same entity ended by raising.
C14_Witness ==
  /\ call.op = "get_property"
  /\ call.out.k = "raise"
  /\ gen.st = "raised"
  /\ DOMAIN entity.attributes # {}

IsTemperatureSensor == cap.cls = "AlexaTemperatureSensor"

\* The reading of a temperature sensor: the current_temperature attribute of
\* a climate entity, the state of any other entity; PyNone when absent.
Reading ==
  IF entity.domain = climate_DOMAIN
  THEN attributes_get(entity, climate_ATTR_CURRENT_TEMPERATURE, PyNone)
  ELSE IF entity.state = None THEN PyNone ELSE Str(entity.state)

\* The unit of that reading: the configured unit for a climate entity, the
\* unit_of_measurement attribute of any other entity.
ReadingUnit ==
  IF entity.domain = climate_DOMAIN THEN hass.temperature_unit
  ELSE attributes_get(entity, ATTR_UNIT_OF_MEASUREMENT, None)

NonZeroNumber(state) ==
  IsNumeric(Str(state)) /\ NumberOf(Str(state)) # 0

\* C16: get_property('humanPresenceDetectionState') of an event detection
\* sensor returns None when the state is unavailable, unknown or absent;
\* otherwise DETECTED exactly when the state is a non-zero number for an
\* image_processing entity or 'on' for an entity of another domain, and
\* NOT_DETECTED in every other case; and connectivity of EndpointHealth is
\* UNREACHABLE for an unavailable entity.
C16_HumanPresence ==
  /\ (/\ cap.cls = "AlexaEventDetectionSensor"
      /\ call.op = "get_property"
      /\ call.arg = "humanPresenceDetectionState") =>
       IF entity.state \in {STATE_UNAVAILABLE, STATE_UNKNOWN, None}
       THEN call.out = ReturnNone
       ELSE LET detected == IF entity.domain = image_processing_DOMAIN
                            THEN NonZeroNumber(entity.state)
                            ELSE entity.state = STATE_ON
            IN call.out = Return([value |-> IF detected THEN "DETECTED"
                                            ELSE "NOT_DETECTED"])
  /\ (/\ cap.cls = "AlexaEndpointHealth"
      /\ entity.state = STATE_UNAVAILABLE
      /\ call.op = "get_property"
      /\ call.arg = "connectivity") =>
       call.out = Return([value |-> "UNREACHABLE"])

\* C17: get_property('lockState') of a lock is LOCKED exactly for the state
\* locked, UNLOCKED exactly for the state unlocked and JAMMED for every
\* other state, the empty string, unavailable and unknown among them; it
\* never raises.
C17_LockState ==
  (/\ cap.cls = "AlexaLockController"
   /\ call.op = "get_property"
   /\ call.arg = "lockState") =>
    /\ call.out.k = "value"
    /\ call.out.v \in {"LOCKED", "UNLOCKED", "JAMMED"}
    /\ call.out.v = "LOCKED" <=> entity.state = "locked"
    /\ call.out.v = "UNLOCKED" <=> entity.state = "unlocked"

\* lockState was read from a lock whose state is the empty string.
C17_Witness ==
  /\ cap.cls = "AlexaLockController"
  /\ call.op = "get_property"
  /\ call.arg = "lockState"
  /\ entity.state = ""
  /\ call.out = Return("JAMMED")

\* C18: get_property('armState') of a security panel is ARMED_STAY for
\* armed_home and for armed_custom_bypass, ARMED_AWAY for armed_away,
\* ARMED_NIGHT for armed_night and DISARMED for every other state; it never
\* raises.
C18_ArmState ==
  (/\ cap.cls = "AlexaSecurityPanelController"
   /\ call.op = "get_property"
   /\ call.arg = "armState") =>
    call.out = Return(CASE entity.state \in {"armed_home", "armed_custom_bypass"} ->
                             "ARMED_STAY"
                        [] entity.state = "armed_away" -> "ARMED_AWAY"
                        [] entity.state = "armed_night" -> "ARMED_NIGHT"
                        [] OTHER -> "DISARMED")

\* armState was read from a panel armed with a custom bypass.
C18_Witness ==
  /\ cap.cls = "AlexaSecurityPanelController"
  /\ call.op = "get_property"
  /\ call.arg = "armState"
  /\ entity.state = "armed_custom_bypass"
  /\ call.out = Return("ARMED_STAY")

\* r is the integer nearest to b * 100 / 255: twice the distance between
\* 255 * r and 100 * b is at most 255.
NearestPercent(r, b) ==
  /\ 2 * (255 * r - 100 * b) <= 255
  /\ 2 * (100 * b - 255 * r) <= 255

IsBrightness ==
  /\ cap.cls = "AlexaBrightnessController"
  /\ call.op = "get_property"
  /\ call.arg = "brightness"

\* C19: get_property('brightness') is, for an integer brightness attribute b
\* in 0..255, b * 100 / 255 rounded to the nearest integer (100 for 255, 50
\* for 128, 0 for 0), within 0..100 and not less than the result for any
\* smaller b; it is 0 when the attribute is missing.
C19_Brightness ==
  IsBrightness =>
    IF light_ATTR_BRIGHTNESS \in DOMAIN entity.attributes
    THEN LET b == entity.attributes[light_ATTR_BRIGHTNESS]
         IN /\ call.out.k = "value"
            /\ call.out.v \in 0..100
            /\ NearestPercent(call.out.v, b)
            /\ b = 255 => call.out.v = 100
            /\ b = 128 => call.out.v = 50
            /\ b = 0 => call.out.v = 0
            /\ \A smaller \in 0..b :
                 AlexaBrightnessController_get_property(
                   [entity EXCEPT !.attributes = light_ATTR_BRIGHTNESS :> smaller],
                   "brightness").v <= call.out.v
    ELSE call.out = Return(0)

\* brightness was read from a light whose brightness attribute is 128.
C19_Witness ==
  /\ IsBrightness
  /\ attributes_get(entity, light_ATTR_BRIGHTNESS, 0) = 128
  /\ call.out = Return(50)

IsColorTemperature == cap.cls = "AlexaColorTemperatureController"

\* C20: get_property('colorTemperatureInKelvin') is 1,000,000 / mired for a
\* color_temp attribute of mired, which is 4000 for 250; without the
\* attribute it is None and serialize_properties yields no fragment.
C20_ColorTemperature ==
  IsColorTemperature =>
    /\ (call.op = "get_property" /\ call.arg = "colorTemperatureInKelvin") =>
         IF "color_temp" \in DOMAIN entity.attributes
         THEN /\ call.out.k = "value"
              /\ call.out.v.num = 1000000
              /\ call.out.v.den = entity.attributes["color_temp"]
              /\ entity.attributes["color_temp"] = 250
                   => call.out.v.num = 4000 * call.out.v.den
         ELSE call.out = ReturnNone
    /\ ("color_temp" \notin DOMAIN entity.attributes
        /\ gen.st \in {"suspended", "done", "raised"})
         => (gen.st = "done" /\ gen.out = <<>>)

\* colorTemperatureInKelvin of a light without color_temp was read and its
\* properties were reported to the end.
C20_Witness ==
  /\ IsColorTemperature
  /\ "color_temp" \notin DOMAIN entity.attributes
  /\ call.op = "get_property"
  /\ call.arg = "colorTemperatureInKelvin"
  /\ call.out = ReturnNone
  /\ gen.st = "done"

IsPower == cap.cls = "AlexaPowerController"

\* The state in which an entity of the domain is off.
OffState(domain) ==
  IF domain = climate_DOMAIN THEN climate_HVAC_MODE_OFF ELSE STATE_OFF

\* C21: Power get_property('powerState') is OFF exactly when the state of the
\* entity is the off state of its domain (the climate off mode for a climate
\* entity, the generic off state otherwise) and ON for every other state,
\* unavailable and unknown included.
C21_PowerState ==
  (IsPower /\ call.op = "get_property" /\ call.arg = "powerState") =>
    /\ call.out.k = "value"
    /\ call.out.v \in {"ON", "OFF"}
    /\ call.out.v = "OFF" <=> entity.state = OffState(entity.domain)
    /\ entity.state \in {STATE_UNAVAILABLE, STATE_UNKNOWN} => call.out.v = "ON"

\* powerState of an unavailable climate entity was read as ON.
C21_Witness ==
  /\ IsPower
  /\ entity.domain = climate_DOMAIN
  /\ entity.state = STATE_UNAVAILABLE
  /\ call.op = "get_property"
  /\ call.arg = "powerState"
  /\ call.out = Return("ON")

\* The classes of the capabilities the operations are applied to.
ConcreteClasses == {in.cap.cls : in \in Inputs}

\* What name() returns on a capability of the class that was just built, for
\* an entity it has not looked at.
NameWhenBuilt(cls) == name(Capability(cls, None, FALSE))

\* C22: for every concrete capability class, name() returns the same
\* non-empty interface identifier on every call, whatever the state, the
\* attributes and the instance identifier of the entity and whatever was
\* called on the capability before; no two classes share an identifier.
C22_NameConstant ==
  call.op = "name" =>
    /\ call.out.k = "value"
    /\ call.out.v # ""
    /\ call.out.v = NameWhenBuilt(cap.cls)
    /\ \A cls \in ConcreteClasses \ {cap.cls} : NameWhenBuilt(cls) # call.out.v

\* name() was called on a Mode controller with an instance identifier after
\* two serialize_discovery calls had stored its resource.
C22_Witness ==
  /\ call.op = "name"
  /\ cap.cls = "AlexaModeController"
  /\ cap.instance # None
  /\ cap._resource # NoResource
  /\ discoveries = MaxDiscoveries

IsModeOrRange == cap.cls \in {"AlexaModeController", "AlexaRangeController"}

\* The resource a capability_resources() call on the capability builds for
\* the entity: none for an instance it does not know and when it raises.
BuiltResource == capability_resources(Fresh, entity).cap._resource

\* What configuration() returns once that resource is stored.
BuiltConfiguration ==
  IF BuiltResource = NoResource THEN ReturnNone
  ELSE serialize_configuration(BuiltResource)

\* One step of a Mode or Range controller: it is built without a resource,
\* only capability_resources(), called directly or by serialize_discovery(),
\* stores one, configuration() returns None while none is stored and the
\* configuration of the stored one afterwards, and the document of a
\* serialize_discovery() call holds the configuration of the resource built
\* by that call, also when none was stored before it.
ConfigurationFollowsResources ==
  IsModeOrRange =>
    /\ call.op = "init" => cap._resource = NoResource
    /\ cap'._resource # cap._resource =>
          /\ call'.op \in {"capability_resources", "serialize_discovery"}
          /\ cap'._resource = BuiltResource
    /\ call'.op = "configuration" =>
          call'.out = IF cap'._resource = NoResource THEN ReturnNone
                      ELSE BuiltConfiguration
    /\ (call'.op = "serialize_discovery" /\ call'.out.k = "value") =>
          KeyIffNotEmpty(call'.out.v, "configuration", BuiltConfiguration)

\* C23: on a Mode or Range controller configuration() returns None as long
\* as capability_resources() has not been called and afterwards the
\* configuration of the resource the most recent call built; inside
\* serialize_discovery capability_resources() runs before configuration(), so
\* the document's configuration is that of the resource built by the same call.
C23_ConfigurationAfterResources == [][ConfigurationFollowsResources]_vars

\* The first serialize_discovery of a Range controller over an input_number
\* put a configuration in the document, and configuration() was None before.
C23_Witness ==
  /\ cap.cls = "AlexaRangeController"
  /\ cap.instance = dotted(input_number_DOMAIN, input_number_ATTR_VALUE)
  /\ call.op = "serialize_discovery"
  /\ discoveries = 1
  /\ call.out.k = "value"
  /\ "configuration" \in DOMAIN call.out.v
  /\ configuration(Fresh, entity) = ReturnNone

\* A thermostat whose state has no Alexa mode and whose preset has none.
UnmappedThermostat ==
  /\ IsThermostat
  /\ table_get(API_THERMOSTAT_MODES, entity.state) = None
  /\ table_get(API_THERMOSTAT_PRESETS,
                attributes_get(entity, climate_ATTR_PRESET_MODE, None)) = None

\* C24: when get_property raises for the i-th declared property while
\* serialize_properties is consumed, the consumer gets that exception at
\* that point: the fragments yielded so far are those of the properties
\* before i and none is of a later property; a thermostat with an unmapped
\* state and no mapped preset yields no fragment at all, thermostatMode being
\* its first declared property.
C24_RaisePropagates ==
  /\ gen.st = "raised" =>
       LET raising == get_property(cap, entity, hass, gen.props[gen.i].name)
       IN /\ gen.i \in DOMAIN gen.props
          /\ raising = Raise(gen.exc)
          /\ \A j \in 1..(gen.i - 1) :
               get_property(cap, entity, hass, gen.props[j].name).k # "raise"
          /\ Len(gen.out) <= gen.i - 1
          /\ \A m \in DOMAIN gen.out :
               \E j \in 1..(gen.i - 1) :
                 /\ gen.out[m]["name"] = gen.props[j].name
                 /\ Return(gen.out[m]["value"]) =
                      get_property(cap, entity, hass, gen.props[j].name)
          /\ \A j \in 1..(gen.i - 1) :
               get_property(cap, entity, hass, gen.props[j].name).k = "value" =>
                 \E m \in DOMAIN gen.out : gen.out[m]["name"] = gen.props[j].name
  /\ (UnmappedThermostat /\ gen.st \in {"suspended", "done", "raised"}) =>
       /\ gen.props[1].name = "thermostatMode"
       /\ gen.out = <<>>
       /\ entity.state # STATE_UNAVAILABLE =>
            /\ gen.st = "raised"
            /\ gen.exc = "UnsupportedProperty"
            /\ gen.i = 1

\* The properties of a thermostat that declares the setpoints, has a target
\* temperature and is in a state without an Alexa mode were reported: the
\* consumer got UnsupportedProperty and no fragment.
C24_Witness ==
  /\ UnmappedThermostat
  /\ entity.state # STATE_UNAVAILABLE
  /\ Len(properties_supported(cap, entity)) > 1
  /\ get_property(cap, entity, hass, "targetSetpoint").k = "value"
  /\ gen.st = "raised"
  /\ gen.exc = "UnsupportedProperty"
  /\ gen.out = <<>>

\* The classes whose constructor takes non_controllable.
NonControllableClasses ==
  {"AlexaModeController", "AlexaRangeController", "AlexaToggleController"}

\* C25: a document of serialize_discovery has nonControllable only inside
\* its properties object, there exactly for a Mode, Range or Toggle
\* controller and with the value the controller was built with; these
\* declare a property whatever that value is, so serialize_discovery never
\* raises KeyError for a missing properties object: a KeyError it raises is
\* the one capability_resources() raised.
C25_NonControllableInsideProperties ==
  /\ cap.cls \in NonControllableClasses =>
       /\ properties_non_controllable(cap) = Return(cap.arg)
       /\ properties_supported(cap, entity) # <<>>
  /\ call.op = "serialize_discovery" =>
       IF call.out.k = "value"
       THEN LET doc == call.out.v
            IN /\ "nonControllable" \notin DOMAIN doc
               /\ cap.cls \in NonControllableClasses =>
                    /\ "properties" \in DOMAIN doc
                    /\ "nonControllable" \in DOMAIN doc["properties"]
                    /\ doc["properties"]["nonControllable"] = cap.arg
               /\ (cap.cls \notin NonControllableClasses
                    /\ "properties" \in DOMAIN doc) =>
                    "nonControllable" \notin DOMAIN doc["properties"]
       ELSE /\ call.out.k = "raise"
            /\ call.out.exc = "KeyError" =>
                 capability_resources(Fresh, entity).out = Raise("KeyError")

\* A Toggle controller built with non_controllable False was discovered:
\* the document has nonControllable False inside properties.
C25_Witness ==
  /\ cap.cls = "AlexaToggleController"
  /\ cap.arg = FALSE
  /\ call.op = "serialize_discovery"
  /\ call.out.k = "value"
  /\ call.out.v["properties"]["nonControllable"] = FALSE

\* C26: current_temperature of the InComfort water heater is the tap
\* temperature whenever the heater is tapping, also while it pumps, else the
\* heater temperature when it pumps, else the larger of the two; it is always
\* one of the two readings and never above both.
C26_CurrentTemperature ==
  call.op = "current_temperature" =>
    /\ call.out.k = "value"
    /\ heater.is_tapping => call.out.v = heater.tap_temp
    /\ (~heater.is_tapping /\ heater.is_pumping) => call.out.v = heater.heater_temp
    /\ (~heater.is_tapping /\ ~heater.is_pumping) =>
         /\ call.out.v >= heater.heater_temp
         /\ call.out.v >= heater.tap_temp
    /\ call.out.v \in {heater.heater_temp, heater.tap_temp}
    /\ call.out.v <= heater.heater_temp \/ call.out.v <= heater.tap_temp

\* The temperature of a heater that taps and pumps at once, its tap cooler
\* than the heater, was read as the tap temperature.
C26_Witness ==
  /\ heater.is_tapping
  /\ heater.is_pumping
  /\ heater.tap_temp < heater.heater_temp
  /\ call.op = "current_temperature"
  /\ call.out = Return(heater.tap_temp)

====
